---- MODULE Spec2Model ----
(***************************************************************************)
(* The supervisor / specialist agent loops of the personal assistant.      *)
(*                                                                         *)
(* Every loop is the same two-node graph (a model node and a ToolNode      *)
(* "action") over one channel, messages, whose reducer is x + y.  Loop 0   *)
(* is the supervisor graph of SupervisorAgent.py.  A slot holds one        *)
(* specialist: under the driver of testagents.py slot 1 is the specialist  *)
(* the script calls, and its graph runs node by node; under /invoke slot i *)
(* is the run_<x>_agent call that the supervisor's ToolNode makes for the  *)
(* i-th function call of the supervisor's last message, a synchronous call *)
(* whose whole run (the same graph, computed by RunModel / RunAction) is   *)
(* one step of the supervisor's action node.                               *)
(*                                                                         *)
(* What the language model answers and whether a provider call fails are   *)
(* inputs, drawn from the small sets defined below.                        *)
(***************************************************************************)
EXTENDS Integers, Sequences, FiniteSets, TLC

VARIABLES
    driver,         \* who started the run: "none", "main" (/invoke), "test" (testagents.py)
    catch_all,      \* ToolNode's default handle_tool_errors of the installed langgraph
    messages,       \* messages[l]: the graph state of loop l (AgentState.messages)
    node,           \* node[l]: the node loop l runs next, or how its run ended
    step,           \* step[l]: supersteps loop l has executed
    kind,           \* kind[l]: the specialist tool that runs in slot l
    ret,            \* ret[l]: what run_<x>_agent handed back for slot l
    final_answer,   \* final_answer[l]: the local of run_search_agent / run_content_creator_agent
    event,          \* the supervisor event astream has yielded and event_stream has not yet seen
    stream,         \* event_stream of main.py: "idle", "open", "closed"
    emitted,        \* the data: events event_stream has yielded, in order
    chat_request,   \* the body of the /invoke request: query and history
    functions,      \* functions[l]: the functions call_model of loop l bound at its last call
    prompted,       \* prompted[l]: the messages call_model of loop l last passed to model.invoke
    recursion_limit,\* the recursion limit the graph runs execute under (the default, scaled)
    token_file,     \* token_gmail.json, the file get_gmail_service reads and writes
    gmail,          \* gmail[r]: where request r is in get_gmail_service, and its creds
    transcripts,    \* transcripts[r]: the messages list invoke_agent built for request r
    mailbox,        \* the mail provider: labels, the message a mail tool works on, what was sent
    people,         \* the contacts provider: the contacts of the account, in order of creation
    tool_in,        \* the arguments of the provider tool called
    tool_out,       \* what the provider tool returned
    token_files,    \* token_files[s]: the TOKEN_FILE of the module of service s
    service,        \* service[s]: what the last call of the getter of service s found and did
    clock,          \* the time of the machine the process runs on
    supervisor_prompt, \* the time SUPERVISOR_SYSTEM_PROMPT gives as the current one
    served,         \* the request the process serves: when it arrived, what its steps were told
    calendar        \* the calendar provider: its events, the last list call and its answer

\* What the concurrent requests of /invoke hold between them.
requestvars == <<token_file, gmail, transcripts>>

\* What the provider tools called on their own read and write.
providervars == <<mailbox, people, tool_in, tool_out, token_files, service>>

\* The clock, what was read off it, and the calendar that is queried by date.
servervars == <<clock, supervisor_prompt, served, calendar>>

vars == <<driver, catch_all, messages, node, step, kind, ret, final_answer,
          event, stream, emitted, chat_request, functions, prompted,
          recursion_limit, requestvars, providervars, servervars>>

----------------------------------------------------------------------------
(* Bounds and input sets *)

\* langgraph's recursion limit (supersteps one run may execute), scaled down.
RecursionLimit == 3

\* A model reply that requests actions carries one or two function calls; the
\* supervisor's ToolNode runs the specialist of its i-th call in slot i.
CallCounts == {1, 2}

Sup == 0
Slots == CallCounts
Loops == {Sup} \cup Slots

----------------------------------------------------------------------------
(* Tool registries *)

\* SupervisorAgent.tools
tools == <<"run_email_agent", "run_contact_agent", "run_calendar_agent",
           "run_content_creator_agent", "run_search_agent">>

Range(s) == {s[i] : i \in DOMAIN s}

\* The tools list each create_<x>_agent_app binds and hands to ToolNode.
AgentTools(k) ==
    CASE k = "run_email_agent" ->
            <<"send_email", "reply_to_email", "add_label_to_email",
              "create_draft", "get_emails", "mark_as_unread">>
      [] k = "run_calendar_agent" ->
            <<"get_calendar_events", "create_calendar_event",
              "update_calendar_event", "delete_calendar_event">>
      [] k = "run_contact_agent" -> <<"get_contacts", "add_or_update_contact">>
      [] k = "run_content_creator_agent" -> <<"tavily_search">>
      [] k = "run_search_agent" -> <<"tavily_search">>
      [] OTHER -> <<>>

\* The registry of a loop of kind k: the supervisor's tools, or a specialist's.
Registry(k) == IF k = "supervisor" THEN Range(tools) ELSE Range(AgentTools(k))

\* The tool names the model is taken to ask for in a loop of kind k: in the
\* supervisor one specialist of each shape of run_<x>_agent body (the test
\* driver runs all five), and in a specialist one tool of each
\* error-handling shape.
Askable(k) ==
    CASE k = "supervisor" -> {"run_email_agent", "run_calendar_agent", "run_search_agent"}
      [] k = "run_email_agent" -> {"send_email"}
      [] k = "run_calendar_agent" -> {"get_calendar_events", "create_calendar_event"}
      [] k = "run_contact_agent" -> {"get_contacts"}
      [] OTHER -> {"tavily_search"}

\* Names the model may also ask for although the loop's tools list does not
\* hold them (the model is free in what it names): a tool of another loop.
Unlisted(k) ==
    CASE k = "supervisor" -> {"send_email"}
      [] k = "run_contact_agent" -> {"send_email"}
      [] k = "run_email_agent" -> {"tavily_search"}
      [] OTHER -> {}

\* The tools the model is taken to call with arguments that do not fit the
\* tool's args_schema (a missing or mistyped parameter).
Malformed(k) ==
    CASE k = "supervisor" -> {"run_search_agent"}
      [] k = "run_contact_agent" -> {"get_contacts"}
      [] k = "run_calendar_agent" -> {"create_calendar_event"}
      [] OTHER -> {}

\* The function calls the model may make in a loop of kind k: the tool named
\* and whether the arguments conform to that tool's schema.
CallShapes(k) ==
    { [name |-> n, conforms |-> TRUE] : n \in Askable(k) \cup Unlisted(k) }
    \cup { [name |-> n, conforms |-> FALSE] : n \in Malformed(k) }

----------------------------------------------------------------------------
(* Messages *)

NoId == <<-1, 0>>
Caller == -1

\* HumanMessage(content=c); by is the loop that made the message
HumanMessage(c, by) ==
    [type |-> "human", content |-> c, additional_kwargs |-> {},
     tool_calls |-> <<>>, tool_call_id |-> NoId, by |-> by, ran |-> "none"]

\* AIMessage: what model.invoke returns (content, additional_kwargs, tool_calls)
AIMessage(c, kw, calls, by) ==
    [type |-> "ai", content |-> c, additional_kwargs |-> kw,
     tool_calls |-> calls, tool_call_id |-> NoId, by |-> by, ran |-> "none"]

\* ToolMessage(content=c, tool_call_id=id), as ToolNode builds it; ran is the
\* tool whose function ran to produce it ("none" when no function ran).
ToolMessage(c, id, by, ran) ==
    [type |-> "tool", content |-> c, additional_kwargs |-> {},
     tool_calls |-> <<>>, tool_call_id |-> id, by |-> by, ran |-> ran]

Last(s) == s[Len(s)]

\* AgentState.messages: Annotated[Sequence[BaseMessage], lambda x, y: x + y]
ReducerSwapped(x, y) == y \o x
Reducer(x, y) == x \o y

\* should_continue(state)
ShouldContinueUnlessFailed(msgs) ==
    /\ "function_call" \in Last(msgs).additional_kwargs
    /\ ~(Len(msgs) > 1 /\ msgs[Len(msgs) - 1].type = "tool"
            /\ msgs[Len(msgs) - 1].content = "Error: exception")
should_continue(msgs) == "function_call" \in Last(msgs).additional_kwargs

----------------------------------------------------------------------------
(* The model node: call_model *)

\* The function calls of one reply, by shape.
CallSeqs(k) ==
    UNION { [ (1..n) -> CallShapes(k) ] : n \in CallCounts }

\* The function calls of a reply of loop l to a transcript of len messages:
\* each carries the fresh id the model client gives it.
ToolCalls(l, len, shapes) ==
    [i \in 1..Len(shapes) |->
        [name |-> shapes[i].name, conforms |-> shapes[i].conforms,
         id |-> <<l, len + i>>, query |-> IF l = Sup THEN "sq" ELSE ""]]

\* The shapes of additional_kwargs on a reply that requests no action.
FinalKwargs == {{}, {"other"}}

\* What model.invoke may return in loop l: a final answer, or a request.
Replies(l, k, len) ==
    { AIMessage("ans", kw, <<>>, l) : kw \in FinalKwargs }
    \cup { AIMessage("", {"function_call"}, ToolCalls(l, len, shapes), l) :
              shapes \in CallSeqs(k) }

\* SystemMessage(content=SYSTEM_PROMPT): the directive of a loop of kind k
SystemMessage(k) ==
    [type |-> "system", content |-> k, additional_kwargs |-> {},
     tool_calls |-> <<>>, tool_call_id |-> NoId, by |-> Caller, ran |-> "none"]

\* The list call_model passes to model.invoke: [SystemMessage(...)] + state["messages"]
ModelInputPromptLast(k, msgs) == msgs \o <<SystemMessage(k)>>
ModelInput(k, msgs) == <<SystemMessage(k)>> \o msgs

\* The functions call_model binds to the model: one for each tool of the list,
\* in the order of the list.
RECURSIVE Reverse(_)
Reverse(s) == IF s = <<>> THEN <<>> ELSE Append(Reverse(Tail(s)), Head(s))
BindReversed(k) == Reverse(IF k = "supervisor" THEN tools ELSE AgentTools(k))
Bind(k) == IF k = "supervisor" THEN tools ELSE AgentTools(k)

\* The name of the model node of loop l.
ModelNode(l) == IF l = Sup THEN "supervisor" ELSE "agent"

\* add_conditional_edges(<model node>, should_continue, {True: "action", False: END})
NextNode(msgs) == IF should_continue(msgs) THEN "action" ELSE "END"

\* How a run of a graph can be over.
Ended == {"END", "GraphRecursionError", "ModelError", "ToolError"}
Raised == {"GraphRecursionError", "ModelError", "ToolError"}

----------------------------------------------------------------------------
(* The tools of the specialists *)

\* What can go wrong in a provider call: nothing, obtaining the service handle
\* (get_<x>_service), an HttpError of the request, or another exception.
Failures == {"none", "service", "http", "other"}

Returned(t) == [raised |-> FALSE, text |-> t]
Raises == [raised |-> TRUE, text |-> ""]

\* One run of a specialist's tool under failure f: the text it returns, or an
\* exception that leaves the tool function.
ToolRun(name, f) ==
    CASE name \in Range(AgentTools("run_email_agent")) ->
            \* no try/except in any mail tool
            IF f = "none" THEN Returned("out") ELSE Raises
      [] name = "get_calendar_events" ->
            \* service handle outside the try; except Exception inside
            IF f = "none" THEN Returned("out")
            ELSE IF f = "service" THEN Raises ELSE Returned("An error occurred")
      [] name \in {"create_calendar_event", "update_calendar_event",
                   "delete_calendar_event", "get_contacts", "add_or_update_contact"} ->
            \* service handle outside the try; except HttpError inside
            IF f = "none" THEN Returned("out")
            ELSE IF f = "http" THEN Returned("An error occurred") ELSE Raises
      [] OTHER ->
            \* tavily_search: the search tool of langchain_tavily
            IF f = "none" THEN Returned("out")
            ELSE IF f = "service" THEN Raises ELSE Returned("An error occurred")

\* ToolNode runs the function of call c in a loop of kind k: the name is one
\* of its tools (tools_by_name) and the arguments pass the tool's schema.
ExecutesUnchecked(k, c) == c.name \in Registry(k)
ExecutesAnywhere(k, c) ==
    /\ \E k2 \in Range(tools) : c.name \in Range(AgentTools(k2))
    /\ c.conforms
Executes(k, c) == c.name \in Registry(k) /\ c.conforms

\* The outcome of a call whose function did not run.
NotRun == Returned("")

\* The outcomes the tools of calls can have in a loop of kind k, one for each call.
ToolOuts(k, calls) ==
    { [i \in DOMAIN calls |->
          IF Executes(k, calls[i]) THEN ToolRun(calls[i].name, fs[i]) ELSE NotRun] :
         fs \in [DOMAIN calls -> Failures] }

----------------------------------------------------------------------------
(* The action node: ToolNode(tools) *)

\* The text ToolNode puts in the ToolMessage of call c whose outcome is o: the
\* invalid-tool-name text, the text of the argument validation error, the text
\* of a handled exception, or what the tool returned.
ResultTextNoName(k, c, o) ==
    IF c.name \notin Registry(k) THEN "Error: not a valid tool"
    ELSE IF ~c.conforms THEN "Error: validation error. Please fix your mistakes."
    ELSE IF o.raised THEN "Error: exception" ELSE o.text
ResultText(k, c, o) ==
    IF c.name \notin Registry(k) THEN "Error: " \o c.name \o " is not a valid tool"
    ELSE IF ~c.conforms THEN "Error: validation error. Please fix your mistakes."
    ELSE IF o.raised THEN "Error: exception" ELSE o.text

\* ToolNode re-raises a tool's exception unless it handles tool errors (ca).
ToolNodeRaisesOnInvalid(ca, k, calls, outs) ==
    \/ ~ca /\ \E i \in DOMAIN calls : calls[i].name \in Registry(k) /\ calls[i].conforms
                                      /\ outs[i].raised
    \/ \E i \in DOMAIN calls : calls[i].name \notin Registry(k) \/ ~calls[i].conforms
ToolNodeRaises(ca, k, calls, outs) ==
    /\ ~ca
    /\ \E i \in DOMAIN calls : Executes(k, calls[i]) /\ outs[i].raised

\* The tool whose function ran for call c.
Ran(k, c) == IF Executes(k, c) THEN c.name ELSE "none"

\* One ToolMessage for each call, in call order, each answering its call's id.
ToolNodeSameId(l, k, calls, outs) ==
    [i \in DOMAIN calls |->
        ToolMessage(ResultText(k, calls[i], outs[i]), calls[1].id, l, Ran(k, calls[i]))]
ToolNodeMessages(l, k, calls, outs) ==
    [i \in DOMAIN calls |->
        ToolMessage(ResultText(k, calls[i], outs[i]), calls[i].id, l, Ran(k, calls[i]))]

----------------------------------------------------------------------------
(* The graph runtime: app.invoke / app.stream / app.astream *)

\* The run stops with GraphRecursionError instead of executing a superstep
\* once it has executed as many as its recursion limit.
OutOfStepsLate(n, limit) == n > limit
OutOfSteps(n, limit) == n >= limit

\* The loop in run_search_agent and run_content_creator_agent over the events
\* of app.stream: the last message of each node's update, in order.
StreamKinds == {"run_content_creator_agent", "run_search_agent"}
ScanEvent(fa, last) ==
    IF last.type = "human" THEN fa
    ELSE IF last.additional_kwargs = {} THEN last.content ELSE fa

\* final_answer after the event of a node of a specialist of kind k.
Scan(k, fa, last) == IF k \in StreamKinds THEN ScanEvent(fa, last) ELSE fa

\* The ways a run of the graph of a specialist of kind k in slot l can end,
\* from the model node (RunModel) or the action node (RunAction), with
\* transcript msgs after n supersteps: the end, the transcript, final_answer.
RunEnd(nd, msgs, fa) == [node |-> nd, messages |-> msgs, fa |-> fa]

RECURSIVE RunModel(_, _, _, _, _, _), RunAction(_, _, _, _, _, _)
RunModel(l, k, ca, msgs, n, fa) ==
    IF OutOfSteps(n, RecursionLimit) THEN {RunEnd("GraphRecursionError", msgs, fa)}
    ELSE {RunEnd("ModelError", msgs, fa)}
         \cup UNION { LET m2 == Reducer(msgs, <<r>>)
                          fa2 == Scan(k, fa, r)
                      IN IF NextNode(m2) = "action"
                         THEN RunAction(l, k, ca, m2, n + 1, fa2)
                         ELSE {RunEnd("END", m2, fa2)}
                    : r \in Replies(l, k, Len(msgs)) }
RunAction(l, k, ca, msgs, n, fa) ==
    IF OutOfSteps(n, RecursionLimit) THEN {RunEnd("GraphRecursionError", msgs, fa)}
    ELSE LET calls == Last(msgs).tool_calls IN
         UNION { LET new == ToolNodeMessages(l, k, calls, outs)
                 IN IF ToolNodeRaises(ca, k, calls, outs)
                    THEN {RunEnd("ToolError", msgs, fa)}
                    ELSE RunModel(l, k, ca, Reducer(msgs, new), n + 1, Scan(k, fa, Last(new)))
               : outs \in ToolOuts(k, calls) }

----------------------------------------------------------------------------
(* The specialists as tools: run_<x>_agent *)

\* The keys of the state app.invoke returns (AgentState has one channel).
StateKeys == {"messages"}

\* The text run_<x>_agent returns when its graph has reached END.
AgentReturnFirst(k, msgs, fa) == msgs[1].content
AgentReturn(k, msgs, fa) ==
    CASE k \in StreamKinds -> fa
      [] k = "run_email_agent" ->
            \* the loop over result.items() looks for a key 'action'
            IF "action" \in StateKeys THEN "" ELSE Last(msgs).content
      [] OTHER -> Last(msgs).content

NoRet == [st |-> "none", text |-> ""]

\* What run_<x>_agent hands back: the text it extracts, or the exception that
\* left its graph (nothing in run_<x>_agent catches it).
RetOf(k, nd, msgs, fa) ==
    IF nd \in Raised THEN [st |-> "raised", text |-> ""]
    ELSE [st |-> "text", text |-> AgentReturn(k, msgs, fa)]

\* create_<x>_agent_app() and the input {"messages": [HumanMessage(content=query)]}
FreshWithHistory(l, query, old) == old \o <<HumanMessage(query, l)>>
Fresh(l, query, old) == <<HumanMessage(query, l)>>

\* Every way run_<x>_agent(query) can come back, its graph under ToolNode mode ca.
RunAgent(l, k, ca, query) ==
    { RetOf(k, e.node, e.messages, e.fa) :
         e \in RunModel(l, k, ca, Fresh(l, query, <<>>), 0, "") }

AgentResults == [k \in Range(tools), ca \in BOOLEAN |-> RunAgent(1, k, ca, "sq")]

\* Every run of the graph of each specialist: how it ends, on which transcript.
AgentRuns ==
    [k \in Range(tools) |->
        UNION { RunModel(1, k, ca, Fresh(1, "sq", <<>>), 0, "") : ca \in BOOLEAN }]

----------------------------------------------------------------------------
(* The graphs, node by node *)

NoEvent == [key |-> "none", last |-> HumanMessage("", Caller)]

\* The event astream yields for a node of the supervisor graph.
Yielded(l, key, last) == IF l = Sup THEN [key |-> key, last |-> last] ELSE event

\* A node of loop l may run: astream is driven by event_stream, which handles
\* each event before it asks for the next.
MayRun(l) == l = Sup => (event = NoEvent /\ stream = "open")

\* The model node of loop l returns a reply, which the reducer appends.
ModelStep(l) ==
    /\ node[l] = ModelNode(l)
    /\ MayRun(l)
    /\ ~OutOfSteps(step[l], recursion_limit)
    /\ \E r \in Replies(l, kind[l], Len(messages[l])) :
          /\ messages' = [messages EXCEPT ![l] = Reducer(@, <<r>>)]
          /\ node' = [node EXCEPT ![l] = NextNode(messages'[l])]
          /\ event' = Yielded(l, ModelNode(l), r)
          /\ final_answer' = [final_answer EXCEPT ![l] = Scan(kind[l], @, r)]
    /\ step' = [step EXCEPT ![l] = @ + 1]
    /\ functions' = [functions EXCEPT ![l] = Bind(kind[l])]
    /\ prompted' = [prompted EXCEPT ![l] = ModelInput(kind[l], messages[l])]
    /\ UNCHANGED <<chat_request, recursion_limit, requestvars, providervars, servervars>>
    /\ UNCHANGED <<driver, catch_all, kind, ret, stream, emitted>>

\* model.invoke raises (the model API fails): the exception leaves the graph.
ModelFails(l) ==
    /\ node[l] = ModelNode(l)
    /\ MayRun(l)
    /\ ~OutOfSteps(step[l], recursion_limit)
    /\ node' = [node EXCEPT ![l] = "ModelError"]
    /\ UNCHANGED <<chat_request, functions, prompted, recursion_limit, requestvars, providervars, servervars>>
    /\ UNCHANGED <<driver, catch_all, messages, step, kind, ret, final_answer,
                   event, stream, emitted>>

\* The run has used its supersteps and is not at END.
RecursionError(l) ==
    /\ node[l] \in {ModelNode(l), "action"}
    /\ MayRun(l)
    /\ OutOfSteps(step[l], recursion_limit)
    /\ node' = [node EXCEPT ![l] = "GraphRecursionError"]
    /\ UNCHANGED <<chat_request, functions, prompted, recursion_limit, requestvars, providervars, servervars>>
    /\ UNCHANGED <<driver, catch_all, messages, step, kind, ret, final_answer,
                   event, stream, emitted>>

\* The action node of a specialist: ToolNode runs the tools its last message
\* asks for and appends their ToolMessages, or lets a tool's exception out.
ToolStep(l) ==
    /\ l \in Slots
    /\ node[l] = "action"
    /\ ~OutOfSteps(step[l], recursion_limit)
    /\ LET calls == Last(messages[l]).tool_calls IN
       \E outs \in ToolOuts(kind[l], calls) :
          LET new == ToolNodeMessages(l, kind[l], calls, outs)
          IN IF ToolNodeRaises(catch_all, kind[l], calls, outs)
             THEN /\ node' = [node EXCEPT ![l] = "ToolError"]
                  /\ UNCHANGED <<messages, step, final_answer>>
             ELSE /\ messages' = [messages EXCEPT ![l] = Reducer(@, new)]
                  /\ node' = [node EXCEPT ![l] = ModelNode(l)]
                  /\ step' = [step EXCEPT ![l] = @ + 1]
                  /\ final_answer' = [final_answer EXCEPT ![l] = Scan(kind[l], @, Last(new))]
    /\ UNCHANGED <<chat_request, functions, prompted, recursion_limit, requestvars, providervars, servervars>>
    /\ UNCHANGED <<driver, catch_all, kind, ret, event, stream, emitted>>

\* run_<x>_agent comes back to the test script.
SpecialistReturn(l) ==
    /\ l \in Slots
    /\ node[l] \in Ended
    /\ ret[l] = NoRet
    /\ ret' = [ret EXCEPT ![l] = RetOf(kind[l], node[l], messages[l], final_answer[l])]
    /\ UNCHANGED <<chat_request, functions, prompted, recursion_limit, requestvars, providervars, servervars>>
    /\ UNCHANGED <<driver, catch_all, messages, node, step, kind, final_answer,
                   event, stream, emitted>>

----------------------------------------------------------------------------
(* The action node of the supervisor *)

SupCalls == Last(messages[Sup]).tool_calls
Started == {i \in DOMAIN SupCalls : Executes("supervisor", SupCalls[i])}

\* ToolNode starts the tool of every call of the last message.
SupActionStart ==
    /\ node[Sup] = "action"
    /\ MayRun(Sup)
    /\ ~OutOfSteps(step[Sup], recursion_limit)
    /\ node' = [l \in Loops |-> IF l = Sup THEN "acting"
                               ELSE IF l \in Started THEN "running" ELSE node[l]]
    /\ kind' = [l \in Loops |-> IF l \in Started THEN SupCalls[l].name ELSE kind[l]]
    /\ UNCHANGED <<chat_request, functions, prompted, recursion_limit, requestvars, providervars, servervars>>
    /\ UNCHANGED <<driver, catch_all, messages, step, ret, final_answer,
                   event, stream, emitted>>

\* run_<x>_agent(query) of slot l: it builds its graph, runs it on its own
\* one-message transcript and comes back.
Delegate(l) ==
    /\ l \in Slots
    /\ node[l] = "running"
    /\ \E r \in AgentResults[kind[l], catch_all] : ret' = [ret EXCEPT ![l] = r]
    /\ node' = [node EXCEPT ![l] = "returned"]
    /\ UNCHANGED <<chat_request, functions, prompted, recursion_limit, requestvars, providervars, servervars>>
    /\ UNCHANGED <<driver, catch_all, messages, step, kind, final_answer,
                   event, stream, emitted>>

\* What the tools came back with, and what ToolNode appends for them.
SupOuts ==
    [i \in DOMAIN SupCalls |->
        IF i \notin Started THEN NotRun
        ELSE IF ret[i].st = "text" THEN Returned(ret[i].text) ELSE Raises]

SupResultsWithQuery ==
    ToolNodeMessages(Sup, "supervisor", SupCalls, SupOuts)
        \o <<HumanMessage(SupCalls[1].query, 1)>>
SupResults == ToolNodeMessages(Sup, "supervisor", SupCalls, SupOuts)

\* Every started run_<x>_agent has come back: ToolNode appends one ToolMessage
\* for each call, or re-raises.
SupActionJoin ==
    /\ node[Sup] = "acting"
    /\ \A i \in Started : node[i] = "returned"
    /\ IF ToolNodeRaises(catch_all, "supervisor", SupCalls, SupOuts)
       THEN /\ node' = [l \in Loops |-> IF l = Sup THEN "ToolError" ELSE "idle"]
            /\ UNCHANGED <<messages, step, event>>
       ELSE /\ node' = [l \in Loops |-> IF l = Sup THEN "supervisor" ELSE "idle"]
            /\ messages' = [messages EXCEPT ![Sup] = Reducer(@, SupResults)]
            /\ step' = [step EXCEPT ![Sup] = @ + 1]
            /\ event' = Yielded(Sup, "action", Last(SupResults))
    /\ kind' = [l \in Loops |-> IF l = Sup THEN kind[l] ELSE "none"]
    /\ ret' = [l \in Loops |-> NoRet]
    /\ UNCHANGED <<chat_request, functions, prompted, recursion_limit, requestvars, providervars, servervars>>
    /\ UNCHANGED <<driver, catch_all, final_answer, stream, emitted>>

----------------------------------------------------------------------------
(* main.py: POST /invoke *)

\* The history of a request: a sequence of {type, content} entries.
Histories ==
    { <<>>,
      <<[type |-> "human", content |-> "h1"], [type |-> "system", content |-> "h2"],
        [type |-> "ai", content |-> "h3"]>> }

\* The loop that rebuilds the message history.
RECURSIVE Reconstruct(_)
Reconstruct(history) ==
    IF history = <<>> THEN <<>>
    ELSE LET msg == Head(history)
             rest == Reconstruct(Tail(history))
         IN IF msg.type = "human" THEN <<HumanMessage(msg.content, Caller)>> \o rest
            ELSE IF msg.type = "ai" THEN <<AIMessage(msg.content, {}, <<>>, Caller)>> \o rest
            ELSE rest

\* No request yet.
NoRequest == [query |-> "", history |-> <<>>]

\* inputs = {"messages": messages}, the query appended last
InputsQueryFirst(query, history) == <<HumanMessage(query, Caller)>> \o Reconstruct(history)
Inputs(query, history) == Reconstruct(history) \o <<HumanMessage(query, Caller)>>

\* invoke_agent: builds the inputs and returns the StreamingResponse.
Invoke ==
    /\ driver = "none"
    /\ driver' = "main"
    /\ \E history \in Histories :
          /\ chat_request' = [query |-> "q", history |-> history]
          /\ messages' = [messages EXCEPT ![Sup] = Inputs("q", history)]
    /\ node' = [node EXCEPT ![Sup] = "supervisor"]
    /\ stream' = "open"
    /\ UNCHANGED <<functions, prompted, recursion_limit, requestvars, providervars, servervars>>
    /\ UNCHANGED <<catch_all, step, kind, ret, final_answer, event, emitted>>

\* The test of event_stream for the event that carries the final answer.
IsFinalEventAnyKey(e) == e.last.additional_kwargs = {}
IsFinalEvent(e) == e.key = "supervisor" /\ e.last.additional_kwargs = {}

ContentEvent(c) == [kind |-> "content", text |-> c]
ErrorEvent == [kind |-> "error", text |-> "An error occurred while processing your request"]

\* The body of the async for: a final event is yielded as {content} and the
\* generator returns; any other event is passed over.
StreamConsumeEach ==
    /\ stream = "open"
    /\ event # NoEvent
    /\ emitted' = IF event.key = "supervisor"
                  THEN Append(emitted, ContentEvent(event.last.content)) ELSE emitted
    /\ event' = NoEvent
    /\ UNCHANGED <<chat_request, functions, prompted, recursion_limit, requestvars, providervars, servervars>>
    /\ UNCHANGED <<driver, catch_all, messages, node, step, kind, ret, final_answer, stream>>
StreamConsume ==
    /\ stream = "open"
    /\ event # NoEvent
    /\ IF IsFinalEvent(event)
       THEN /\ emitted' = Append(emitted, ContentEvent(event.last.content))
            /\ stream' = "closed"
       ELSE UNCHANGED <<emitted, stream>>
    /\ event' = NoEvent
    /\ UNCHANGED <<chat_request, functions, prompted, recursion_limit, requestvars, providervars, servervars>>
    /\ UNCHANGED <<driver, catch_all, messages, node, step, kind, ret, final_answer>>

\* except Exception: the supervisor run raised; {error} is yielded.
StreamExcept ==
    /\ stream = "open"
    /\ event = NoEvent
    /\ node[Sup] \in Raised
    /\ emitted' = Append(emitted, ErrorEvent)
    /\ stream' = "closed"
    /\ UNCHANGED <<chat_request, functions, prompted, recursion_limit, requestvars, providervars, servervars>>
    /\ UNCHANGED <<driver, catch_all, messages, node, step, kind, ret, final_answer, event>>

\* astream is exhausted (the graph is at END): the generator ends.
StreamEnd ==
    /\ stream = "open"
    /\ event = NoEvent
    /\ node[Sup] = "END"
    /\ stream' = "closed"
    /\ UNCHANGED <<chat_request, functions, prompted, recursion_limit, requestvars, providervars, servervars>>
    /\ UNCHANGED <<driver, catch_all, messages, node, step, kind, ret, final_answer,
                   event, emitted>>

----------------------------------------------------------------------------
(* run_super.py: the script that streams one supervisor run *)

\* The events app.stream yields for a supervisor run whose transcript is msgs:
\* one for each reply of the supervisor node, and one for each step of the
\* action node, which carries the last of the tool messages of that step.
Events(msgs) ==
    LET Yields(i) ==
            /\ msgs[i].by = Sup
            /\ \/ msgs[i].type = "ai"
               \/ /\ msgs[i].type = "tool"
                  /\ (i = Len(msgs) \/ msgs[i + 1].type # "tool")
        at == SelectSeq([i \in 1..Len(msgs) |-> i], Yields)
    IN [j \in 1..Len(at) |->
           [key |-> IF msgs[at[j]].type = "ai" THEN "supervisor" ELSE "action",
            last |-> msgs[at[j]]]]

\* final_answer of run_super.py after the loop over the events: each event
\* of the supervisor node whose last message has empty additional_kwargs
\* overwrites it.
RECURSIVE RunSuperAnyKey(_, _)
RunSuperAnyKey(events, fa) ==
    IF events = <<>> THEN fa
    ELSE RunSuperAnyKey(Tail(events),
            IF Head(events).last.additional_kwargs = {}
            THEN Head(events).last.content ELSE fa)
RECURSIVE RunSuper(_, _)
RunSuper(events, fa) ==
    IF events = <<>> THEN fa
    ELSE RunSuper(Tail(events),
            IF Head(events).key = "supervisor" /\ Head(events).last.additional_kwargs = {}
            THEN Head(events).last.content ELSE fa)

----------------------------------------------------------------------------
(* testagents.py: test_all_agents calls each run_<x>_agent.invoke directly *)

\* The specialists in the order test_all_agents calls them.
test_calls == <<"run_email_agent", "run_contact_agent", "run_calendar_agent",
                "run_content_creator_agent", "run_search_agent">>

\* The place of specialist k in that order.
TestIndex(k) == CHOOSE i \in DOMAIN test_calls : test_calls[i] = k

\* The script's first call: run_email_agent.invoke({"query": email_query}).
TestAgent ==
    /\ driver = "none"
    /\ driver' = "test"
    /\ kind' = [kind EXCEPT ![1] = test_calls[1]]
    /\ messages' = [messages EXCEPT ![1] = Fresh(1, "tq", @)]
    /\ node' = [node EXCEPT ![1] = "agent"]
    /\ UNCHANGED <<catch_all, step, ret, final_answer, event, stream, emitted>>
    /\ UNCHANGED <<chat_request, functions, prompted, recursion_limit, requestvars, providervars, servervars>>

\* The previous call returned its text: the script calls the next specialist,
\* which builds its own graph and its own messages.
TestNextAgent ==
    /\ driver = "test"
    /\ ret[1].st = "text"
    /\ TestIndex(kind[1]) < Len(test_calls)
    /\ kind' = [kind EXCEPT ![1] = test_calls[TestIndex(@) + 1]]
    /\ messages' = [messages EXCEPT ![1] = Fresh(1, "tq", @)]
    /\ node' = [node EXCEPT ![1] = "agent"]
    /\ step' = [step EXCEPT ![1] = 0]
    /\ ret' = [ret EXCEPT ![1] = NoRet]
    /\ final_answer' = [final_answer EXCEPT ![1] = ""]
    /\ functions' = [functions EXCEPT ![1] = <<>>]
    /\ prompted' = [prompted EXCEPT ![1] = <<>>]
    /\ UNCHANGED <<driver, catch_all, event, stream, emitted, chat_request,
                   recursion_limit, requestvars, providervars, servervars>>

----------------------------------------------------------------------------
(* Concurrent requests of /invoke, and the token file of the mail provider *)

\* Two requests that main.py serves at the same time: each has its own
\* messages list, and the mail tools that their runs call execute
\* get_gmail_service in threads of one process, statement by statement.
Clients == {1, 2}

Query(r) == IF r = 1 THEN "q1" ELSE "q2"

\* The token file: absent, opened for writing and still empty, or holding
\* credentials; by is the request that wrote it (0: it was on disk before).
NoFile == [state |-> "absent", valid |-> FALSE, by |-> 0]
TokenFiles ==
    {NoFile} \cup {[state |-> "creds", valid |-> v, by |-> 0] : v \in BOOLEAN}

\* creds = None
NoCreds == [state |-> "none", valid |-> FALSE, by |-> 0]
NoCall == [pc |-> "idle", creds |-> NoCreds]

NoMailbox == [labels |-> <<>>, message_labels |-> {}, original |-> <<>>, calls |-> <<>>]
NoArgs == [tool |-> "none"]
NoOut == [st |-> "none", text |-> <<>>]

loopvars == <<driver, catch_all, messages, node, step, kind, ret, final_answer,
              event, stream, emitted, chat_request, functions, prompted,
              recursion_limit>>

\* invoke_agent of request r builds its messages list; its run reaches a mail tool.
RequestInvoke(r) ==
    /\ gmail[r].pc = "idle"
    /\ transcripts' = [transcripts EXCEPT ![r] = Inputs(Query(r), <<>>)]
    /\ gmail' = [gmail EXCEPT ![r].pc = "called"]
    /\ UNCHANGED <<token_file, loopvars, providervars, servervars>>

\* if os.path.exists(TOKEN_FILE): creds = Credentials.from_authorized_user_file(...)
GmailLoad(r) ==
    /\ gmail[r].pc = "called"
    /\ gmail' = [gmail EXCEPT ![r] =
                   IF token_file.state = "absent" THEN [pc |-> "loaded", creds |-> NoCreds]
                   ELSE IF token_file.state = "open" THEN [pc |-> "raised", creds |-> NoCreds]
                   ELSE [pc |-> "loaded", creds |-> token_file]]
    /\ UNCHANGED <<token_file, transcripts, loopvars, providervars, servervars>>

\* if not creds or not creds.valid: creds.refresh(Request()), or the consent flow
GmailRenew(r) ==
    /\ gmail[r].pc = "loaded"
    /\ gmail' = [gmail EXCEPT ![r] =
                   IF @.creds.state = "creds" /\ @.creds.valid
                   THEN [pc |-> "build", creds |-> @.creds]
                   ELSE [pc |-> "renewed",
                         creds |-> [state |-> "creds", valid |-> TRUE, by |-> r]]]
    /\ UNCHANGED <<token_file, transcripts, loopvars, providervars, servervars>>

\* with open(TOKEN_FILE, "w") as token: the file is truncated
GmailOpen(r) ==
    /\ gmail[r].pc = "renewed"
    /\ token_file' = [state |-> "open", valid |-> FALSE, by |-> r]
    /\ gmail' = [gmail EXCEPT ![r].pc = "opened"]
    /\ UNCHANGED <<transcripts, loopvars, providervars, servervars>>

\* token.write(creds.to_json())
GmailWrite(r) ==
    /\ gmail[r].pc = "opened"
    /\ token_file' = gmail[r].creds
    /\ gmail' = [gmail EXCEPT ![r].pc = "build"]
    /\ UNCHANGED <<transcripts, loopvars, providervars, servervars>>

\* return build("gmail", "v1", credentials=creds)
GmailBuild(r) ==
    /\ gmail[r].pc = "build"
    /\ gmail' = [gmail EXCEPT ![r].pc = "done"]
    /\ UNCHANGED <<token_file, transcripts, loopvars, providervars, servervars>>

----------------------------------------------------------------------------
(* get_gmail_service, get_calendar_service, get_people_service: one call *)

\* The three getters differ in their TOKEN_FILE, SCOPES and service name only.
Services == {"gmail", "calendar", "people"}

\* What a TOKEN_FILE holds: nothing (the file does not exist), or
\* credentials that are valid, or expired, or without a token, with or
\* without a refresh token. Valid credentials are not expired.
NoToken == [state |-> "absent", valid |-> FALSE, expired |-> FALSE, refresh_token |-> FALSE]
StoredTokens ==
    {NoToken} \cup
    {c \in [state : {"creds"}, valid : BOOLEAN, expired : BOOLEAN,
            refresh_token : BOOLEAN] : c.valid => ~c.expired}

\* if not creds or not creds.valid
NeedsRenewal(creds) == creds.state # "creds" \/ ~creds.valid

\* if creds and creds.expired and creds.refresh_token
RefreshableWithoutToken(creds) == creds.state = "creds" /\ creds.expired
Refreshable(creds) ==
    creds.state = "creds" /\ creds.expired /\ creds.refresh_token

\* One call of a getter that finds file as its TOKEN_FILE: how it came by
\* its credentials, whether it wrote the file, whether it returned a handle
\* (creds.refresh raises when the provider rejects the refresh token, and
\* the getter with it), the credentials and the file after the call.
\* refreshes: the provider accepts the refresh token; grants_refresh: the
\* consent flow hands out a refresh token.
GetService(file, refreshes, grants_refresh) ==
    IF ~NeedsRenewal(file)
    THEN [how |-> "reuse", wrote |-> FALSE, returned |-> TRUE,
          creds |-> file, file |-> file]
    ELSE IF Refreshable(file)
    THEN IF refreshes
         THEN LET creds == [file EXCEPT !.valid = TRUE, !.expired = FALSE]
              IN [how |-> "refresh", wrote |-> TRUE, returned |-> TRUE,
                  creds |-> creds, file |-> creds]
         ELSE [how |-> "refresh", wrote |-> FALSE, returned |-> FALSE,
               creds |-> file, file |-> file]
    ELSE LET creds == [state |-> "creds", valid |-> TRUE, expired |-> FALSE,
                       refresh_token |-> grants_refresh]
         IN [how |-> "flow", wrote |-> TRUE, returned |-> TRUE,
             creds |-> creds, file |-> creds]

NoService == [found |-> NoToken, how |-> "none", wrote |-> FALSE, returned |-> FALSE,
              creds |-> NoToken, before |-> "none"]

\* The record of a call g of the getter of service s; before is how the
\* call before it on s went.
Got(s, g) ==
    [found |-> token_files[s], how |-> g.how, wrote |-> g.wrote,
     returned |-> g.returned, creds |-> g.creds,
     before |-> IF service[s].how = "none" THEN "none"
                ELSE IF service[s].returned THEN service[s].how ELSE "raised"]

\* A call of the getter of service s, on its own.
GetterCall(s) ==
    \E refreshes \in BOOLEAN, grants_refresh \in BOOLEAN :
        LET g == GetService(token_files[s], refreshes, grants_refresh) IN
        /\ token_files' = [token_files EXCEPT ![s] = g.file]
        /\ service' = [service EXCEPT ![s] = Got(s, g)]
        /\ UNCHANGED <<mailbox, people, tool_in, tool_out, loopvars, requestvars, servervars>>

----------------------------------------------------------------------------
(* The provider tools called on their own: reply_to_email,
   add_label_to_email, add_or_update_contact *)

\* Texts the tools compare letter by letter are sequences of characters.
LowerChar(c) ==
    CASE c = "A" -> "a" [] c = "B" -> "b" [] c = "C" -> "c" [] c = "D" -> "d"
      [] c = "E" -> "e" [] c = "H" -> "h" [] c = "I" -> "i" [] c = "R" -> "r"
      [] c = "M" -> "m" [] c = "O" -> "o" [] c = "T" -> "t" [] c = "W" -> "w"
      [] c = "Y" -> "y"
      [] OTHER -> c

\* str.lower()
Lower(t) == [i \in DOMAIN t |-> LowerChar(t[i])]

\* str.startswith(prefix)
StartsWith(t, prefix) ==
    Len(prefix) <= Len(t) /\ SubSeq(t, 1, Len(prefix)) = prefix

\* The getter a tool calls first: the token file and the record after it.
Called(s, g) ==
    /\ token_files' = [token_files EXCEPT ![s] = g.file]
    /\ service' = [service EXCEPT ![s] = Got(s, g)]

\* The getter raised: the tool raises with it and calls nothing.
GetterRaised == [st |-> "raised", text |-> <<"RefreshError">>]

\* The one message the mail tools are called on.
MessageId == "m1"

\* The label names the tool is asked for, and the label lists of the account.
LabelNames == {<<"A", "b">>, <<"a", "b">>, <<"A", "B">>, <<"C", "d">>}
LabelLists ==
    { <<>>,
      <<[id |-> "L1", name |-> <<"A", "b">>]>>,
      <<[id |-> "L1", name |-> <<"C", "d">>],
        [id |-> "L2", name |-> <<"A", "B">>],
        [id |-> "L3", name |-> <<"a", "b">>]>> }

\* l['name'].lower() == label_name.lower()
SameNameExact(a, b) == a = b
SameName(a, b) == Lower(a) = Lower(b)

\* next((l['id'] for l in labels if ...), None)
None == "None"
LabelId(labels, label_name) ==
    LET hits == {i \in DOMAIN labels : SameName(labels[i].name, label_name)}
    IN IF hits = {} THEN None
       ELSE labels[CHOOSE i \in hits : \A j \in hits : i <= j].id

AddLabelToEmail ==
    \E label_name \in LabelNames, refreshes \in BOOLEAN, grants_refresh \in BOOLEAN :
        LET g == GetService(token_files["gmail"], refreshes, grants_refresh)
            label_id == LabelId(mailbox.labels, label_name)
            listed == [api |-> "labels.list"]
            modify_request == [addLabelIds |-> <<label_id>>, removeLabelIds |-> <<>>]
        IN
        /\ Called("gmail", g)
        /\ tool_in' = [tool |-> "add_label_to_email", message_id |-> MessageId,
                       label_name |-> label_name]
        /\ IF ~g.returned
           THEN /\ tool_out' = GetterRaised
                /\ mailbox' = [mailbox EXCEPT !.calls = <<>>]
           ELSE IF label_id = None
           THEN /\ tool_out' = [st |-> "text",
                                text |-> <<"Error: Label '">> \o label_name
                                             \o <<"' not found.">>]
                /\ mailbox' = [mailbox EXCEPT !.calls = <<listed>>]
           ELSE /\ mailbox' =
                     [mailbox EXCEPT
                        !.calls = <<listed,
                                    [api |-> "messages.modify", id |-> MessageId,
                                     body |-> modify_request]>>,
                        !.message_labels =
                            (@ \cup Range(modify_request.addLabelIds))
                                \ Range(modify_request.removeLabelIds)]
                /\ tool_out' = [st |-> "text",
                                text |-> <<"Label '">> \o label_name
                                             \o <<"' added to message ", MessageId, ".">>]
        /\ UNCHANGED <<people, loopvars, requestvars, servervars>>

\* The contacts the account may hold; the tool is not called on a full account.
MaxContacts == 2

\* The arguments add_or_update_contact is called with.
ContactArgs ==
    { [name |-> "Jane", phone |-> "555", email |-> None],
      [name |-> "Jane", phone |-> None, email |-> "j@x"],
      [name |-> "Raj", phone |-> None, email |-> None] }

AddOrUpdateContact ==
    \E a \in ContactArgs, created \in BOOLEAN,
       refreshes \in BOOLEAN, grants_refresh \in BOOLEAN :
        LET g == GetService(token_files["people"], refreshes, grants_refresh)
            new_contact ==
                [names |-> <<[givenName |-> a.name]>>,
                 phoneNumbers |-> IF a.phone # None THEN <<[value |-> a.phone]>> ELSE <<>>,
                 emailAddresses |-> IF a.email # None THEN <<[value |-> a.email]>> ELSE <<>>]
        IN
        /\ Len(people) < MaxContacts
        /\ Called("people", g)
        /\ tool_in' = [tool |-> "add_or_update_contact", name |-> a.name,
                       phone |-> a.phone, email |-> a.email]
        /\ IF ~g.returned
           THEN tool_out' = GetterRaised /\ people' = people
           ELSE IF created
           THEN /\ people' = Append(people, new_contact)
                /\ tool_out' = [st |-> "text",
                                text |-> <<"Successfully created/updated contact: ",
                                           a.name>>]
           ELSE /\ people' = people
                /\ tool_out' = [st |-> "text",
                                text |-> <<"An error occurred: ", "HttpError">>]
        /\ UNCHANGED <<mailbox, loopvars, requestvars, servervars>>

\* The headers of the original message: From always, Reply-To with an
\* address, without one or not at all, a Subject or none, and the message
\* id under the name Message-ID or Message-Id.
Subjects ==
    { <<"H", "i">>, <<"R", "e", ":", " ", "H", "i">>, <<"R", "E", ":", "H", "i">>,
      <<"r", "e", " ", "H", "i">> }
ReplyToHeaders ==
    { <<>>, <<[name |-> "Reply-To", value |-> <<"r@x">>]>>,
      <<[name |-> "Reply-To", value |-> <<>>]>> }
SubjectHeaders == {<<>>} \cup {<<[name |-> "Subject", value |-> v]>> : v \in Subjects}
MessageIdHeaders ==
    { <<[name |-> "Message-ID", value |-> <<"<1@x>">>]>>,
      <<[name |-> "Message-Id", value |-> <<"<1@x>">>]>> }
Originals ==
    { [threadId |-> t,
       headers |-> <<[name |-> "From", value |-> <<"f@x">>]>> \o rt \o sj \o mid] :
        t \in {"t1", "t2"}, rt \in ReplyToHeaders, sj \in SubjectHeaders,
        mid \in MessageIdHeaders }

\* headers = {h['name']: h['value'] for h in ...}: name in headers, and
\* headers.get(name, default), where the last header of a name counts.
Has(headers, name) == \E i \in DOMAIN headers : headers[i].name = name
Get(headers, name, default) ==
    LET at == {i \in DOMAIN headers : headers[i].name = name}
    IN IF at = {} THEN default
       ELSE headers[CHOOSE i \in at : \A j \in at : j <= i].value

\* headers.get('Reply-To') or headers.get('From'); <<>> is '' and None alike.
ToAddr(headers) ==
    IF Get(headers, "Reply-To", <<>>) # <<>> THEN Get(headers, "Reply-To", <<>>)
    ELSE Get(headers, "From", <<>>)

\* if not subject.lower().startswith('re:'): subject = f"Re: {subject}"
ReplySubjectStacked(subject) == <<"R", "e", ":", " ">> \o subject
ReplySubject(subject) ==
    IF ~StartsWith(Lower(subject), <<"r", "e", ":">>)
    THEN <<"R", "e", ":", " ">> \o subject
    ELSE subject

ReplyToEmail ==
    \E refreshes \in BOOLEAN, grants_refresh \in BOOLEAN :
        LET g == GetService(token_files["gmail"], refreshes, grants_refresh)
            original_message == mailbox.original
            thread_id == original_message.threadId
            headers == original_message.headers
            got == [api |-> "messages.get", id |-> MessageId]
            reply == [api |-> "messages.send",
                      to |-> ToAddr(headers),
                      subject |-> ReplySubject(Get(headers, "Subject", <<>>)),
                      in_reply_to |-> Get(headers, "Message-ID", <<>>),
                      threadId |-> thread_id]
        IN
        /\ Called("gmail", g)
        /\ tool_in' = [tool |-> "reply_to_email", message_id |-> MessageId, body |-> "b"]
        /\ IF ~g.returned
           THEN /\ tool_out' = GetterRaised
                /\ mailbox' = [mailbox EXCEPT !.calls = <<>>]
           ELSE IF ~Has(headers, "Message-ID")
           THEN /\ tool_out' = [st |-> "raised", text |-> <<"KeyError">>]
                /\ mailbox' = [mailbox EXCEPT !.calls = <<got>>]
           ELSE /\ tool_out' = [st |-> "text",
                                text |-> <<"Replied to message in thread ", thread_id, ".">>]
                /\ mailbox' = [mailbox EXCEPT !.calls = <<got, reply>>]
        /\ UNCHANGED <<people, loopvars, requestvars, servervars>>

----------------------------------------------------------------------------
(* get_calendar_events *)

\* A date is a year, a month and a day of the Gregorian calendar.
Leap(y) == (y % 4 = 0 /\ y % 100 # 0) \/ y % 400 = 0
DaysIn(y, m) ==
    IF m = 2 THEN (IF Leap(y) THEN 29 ELSE 28)
    ELSE IF m \in {4, 6, 9, 11} THEN 30 ELSE 31

\* date + timedelta(days=1)
NextDay(date) ==
    IF date.d < DaysIn(date.y, date.m) THEN [date EXCEPT !.d = @ + 1]
    ELSE IF date.m < 12 THEN [y |-> date.y, m |-> date.m + 1, d |-> 1]
    ELSE [y |-> date.y + 1, m |-> 1, d |-> 1]

\* The digits of a text as a number; -1 when a character is no digit.
Digit(c) ==
    CASE c = "0" -> 0 [] c = "1" -> 1 [] c = "2" -> 2 [] c = "3" -> 3 [] c = "4" -> 4
      [] c = "5" -> 5 [] c = "6" -> 6 [] c = "7" -> 7 [] c = "8" -> 8 [] c = "9" -> 9
      [] OTHER -> -1
IsDigits(t) == t # <<>> /\ \A i \in DOMAIN t : Digit(t[i]) >= 0
RECURSIVE Number(_)
Number(t) == IF t = <<>> THEN 0 ELSE 10 * Number(SubSeq(t, 1, Len(t) - 1)) + Digit(t[Len(t)])

\* datetime.strptime(day, "%Y-%m-%d").date(): four digits, a month of one
\* or two digits and a day of one or two digits, with "-" between them, that
\* are a date of the calendar; anything else is a ValueError.
NoDate == [y |-> 0, m |-> 0, d |-> 0]
Strptime(t) ==
    LET dashes == {i \in DOMAIN t : t[i] = "-"}
        p == CHOOSE i \in dashes : \A j \in dashes : i <= j
        q == CHOOSE i \in dashes : \A j \in dashes : j <= i
        Y == SubSeq(t, 1, p - 1)
        m == SubSeq(t, p + 1, q - 1)
        d == SubSeq(t, q + 1, Len(t))
    IN IF /\ Cardinality(dashes) = 2
          /\ IsDigits(Y) /\ Len(Y) = 4
          /\ IsDigits(m) /\ Len(m) <= 2 /\ Number(m) \in 1..12
          /\ IsDigits(d) /\ Len(d) <= 2
          /\ Number(Y) >= 1
          /\ Number(d) \in 1..DaysIn(Number(Y), Number(m))
       THEN [ok |-> TRUE, date |-> [y |-> Number(Y), m |-> Number(m), d |-> Number(d)]]
       ELSE [ok |-> FALSE, date |-> NoDate]

\* The day argument: None, or a text.
NoDay == [none |-> TRUE, text |-> <<>>]
Day(t) == [none |-> FALSE, text |-> t]
Days ==
    { NoDay,
      Day(<<"t", "o", "d", "a", "y">>), Day(<<"T", "o", "d", "a", "y">>),
      Day(<<"T", "O", "M", "O", "R", "R", "O", "W">>),
      Day(<<"t", "o", "m", "o", "r", "r", "o", "w">>),
      Day(<<"2", "0", "2", "5", "-", "0", "3", "-", "0", "1">>),
      Day(<<"2", "0", "2", "5", "-", "3", "-", "1">>),
      Day(<<"2", "0", "2", "4", "-", "0", "2", "-", "2", "9">>),
      Day(<<"2", "0", "2", "5", "-", "0", "2", "-", "2", "9">>),
      Day(<<"0", "1", "/", "0", "3", "/", "2", "0", "2", "5">>),
      Day(<<"n", "e", "x", "t", " ", "w", "e", "e", "k">>),
      Day(<<>>) }

\* str(day) in an f-string
DayText(day) == IF day.none THEN <<"None">> ELSE day.text

\* target_date: today, tomorrow or the date that was given
TargetDateExact(day, now_utc) ==
    IF day.none \/ day.text = <<"t", "o", "d", "a", "y">>
    THEN [ok |-> TRUE, date |-> now_utc]
    ELSE IF day.text = <<"t", "o", "m", "o", "r", "r", "o", "w">>
    THEN [ok |-> TRUE, date |-> NextDay(now_utc)]
    ELSE Strptime(day.text)
TargetDate(day, now_utc) ==
    IF day.none \/ Lower(day.text) = <<"t", "o", "d", "a", "y">>
    THEN [ok |-> TRUE, date |-> now_utc]
    ELSE IF Lower(day.text) = <<"t", "o", "m", "o", "r", "r", "o", "w">>
    THEN [ok |-> TRUE, date |-> NextDay(now_utc)]
    ELSE Strptime(day.text)

\* datetime.min.time() and datetime.max.time(), in seconds of the day
MinTime == 0
MaxTime == 86399

\* The UTC dates the calls are made on.
Nows ==
    { [y |-> 2025, m |-> 2, d |-> 28], [y |-> 2024, m |-> 2, d |-> 28],
      [y |-> 2025, m |-> 12, d |-> 31], [y |-> 2025, m |-> 3, d |-> 1] }

\* The events of the primary calendar, by start; the last has no title.
Events_ ==
    << [id |-> "e1", summary |-> <<"x">>, start |-> [date |-> [y |-> 2024, m |-> 2, d |-> 29], time |-> 43200]],
       [id |-> "e2", summary |-> <<"y">>, start |-> [date |-> [y |-> 2025, m |-> 2, d |-> 28], time |-> 86399]],
       [id |-> "e3", summary |-> <<"z">>, start |-> [date |-> [y |-> 2025, m |-> 3, d |-> 1], time |-> 0]],
       [id |-> "e4", summary |-> <<"u">>, start |-> [date |-> [y |-> 2025, m |-> 3, d |-> 1], time |-> 43200]],
       [id |-> "e5", start |-> [date |-> [y |-> 2026, m |-> 1, d |-> 1], time |-> 0]] >>

\* target_date of every call there can be.
TargetDates == [day \in Days, now_utc \in Nows |-> TargetDate(day, now_utc)]

\* a <= b, for points in time
NotAfter(a, b) ==
    LET A == <<a.date.y, a.date.m, a.date.d, a.time>>
        B == <<b.date.y, b.date.m, b.date.d, b.time>>
    IN \/ A = B
       \/ \E i \in 1..4 : A[i] < B[i] /\ \A j \in 1..(i - 1) : A[j] = B[j]

GetCalendarEvents ==
    \E day \in Days, now_utc \in Nows, listed \in BOOLEAN,
       g \in {GetService(token_files["calendar"], refreshes, grants_refresh) :
                 refreshes \in BOOLEAN, grants_refresh \in BOOLEAN} :
        LET target_date == TargetDates[day, now_utc]
            start_of_day_utc == [date |-> target_date.date, time |-> MinTime]
            end_of_day_utc == [date |-> target_date.date, time |-> MaxTime]
            call == [api |-> "events.list", timeMin |-> start_of_day_utc,
                     timeMax |-> end_of_day_utc]
            InWindow(e) == NotAfter(start_of_day_utc, e.start) /\ NotAfter(e.start, end_of_day_utc)
            events == SelectSeq(calendar.events, InWindow)
        IN
        /\ Called("calendar", g)
        /\ tool_in' = [tool |-> "get_calendar_events", day |-> day]
        /\ IF ~g.returned
           THEN /\ tool_out' = GetterRaised
                /\ calendar' = [calendar EXCEPT !.now_utc = now_utc, !.calls = <<>>]
           ELSE IF ~target_date.ok
           THEN /\ tool_out' = [st |-> "text", text |-> <<"An error occurred: ", "ValueError">>]
                /\ calendar' = [calendar EXCEPT !.now_utc = now_utc, !.calls = <<>>]
           ELSE /\ calendar' = [calendar EXCEPT !.now_utc = now_utc, !.calls = <<call>>]
                /\ tool_out' =
                      IF ~listed
                      THEN [st |-> "text", text |-> <<"An error occurred: ", "HttpError">>]
                      ELSE IF events = <<>>
                      THEN [st |-> "text",
                            text |-> <<"No upcoming events found for ">> \o DayText(day)
                                         \o <<".">>]
                      ELSE IF \E i \in DOMAIN events : "summary" \notin DOMAIN events[i]
                      THEN [st |-> "text", text |-> <<"An error occurred: ", "KeyError">>]
                      ELSE [st |-> "list",
                            text |-> [i \in DOMAIN events |->
                                        [id |-> events[i].id, summary |-> events[i].summary,
                                         start |-> events[i].start]]]
        /\ UNCHANGED <<mailbox, people, clock, supervisor_prompt, served,
                       loopvars, requestvars>>

----------------------------------------------------------------------------
(* get_contacts *)

\* dict.get(key, default)
DictGet(d, key, default) == IF key \in DOMAIN d THEN d[key] ELSE default

\* q in t, for strings
Contains(t, q) ==
    \E i \in 0..(Len(t) - Len(q)) : SubSeq(t, i + 1, i + Len(q)) = q

\* The connections the provider may list: one name, two names of which the
\* second is like the first one's, an empty list of names, a name without
\* displayName, no names at all.
Persons ==
    { [names |-> <<[displayName |-> <<"A", "b">>]>>,
       phoneNumbers |-> <<[value |-> "1"]>>, emailAddresses |-> <<>>],
      [names |-> <<[displayName |-> <<"C", "d">>], [displayName |-> <<"a", "B">>]>>,
       phoneNumbers |-> <<>>, emailAddresses |-> <<[value |-> "c@x"]>>],
      [names |-> <<>>, emailAddresses |-> <<[value |-> "n@x"]>>],
      [names |-> <<[givenName |-> <<"a", "b">>]>>, phoneNumbers |-> <<[value |-> "4"]>>],
      [emailAddresses |-> <<[value |-> "e@x"]>>] }

\* What connections().list answers: up to MaxContacts of them, each once.
Connections ==
    UNION { {c \in [1..n -> Persons] : \A i, j \in 1..n : c[i] = c[j] => i = j} :
            n \in 0..MaxContacts }

Queries == {<<"a", "b">>, <<"B">>, <<"c">>, <<"x">>, <<>>}

\* any(lower_query in n.get("displayName", "").lower() for n in person.get("names", []))
MatchFirstName(person, lower_query) ==
    LET names == DictGet(person, "names", <<>>) IN
    /\ names # <<>>
    /\ Contains(Lower(DictGet(names[1], "displayName", <<>>)), lower_query)
Match(person, lower_query) ==
    LET names == DictGet(person, "names", <<>>) IN
    \E j \in DOMAIN names :
        Contains(Lower(DictGet(names[j], "displayName", <<>>)), lower_query)

\* [p.get("value") for p in ...]
Values(entries) == [i \in DOMAIN entries |-> entries[i].value]

\* The entry appended to found_contacts for a person that matched.
Found(person) ==
    [name |-> DictGet(DictGet(person, "names", <<[x |-> 0]>>)[1], "displayName", <<"N/A">>),
     phones |-> Values(DictGet(person, "phoneNumbers", <<>>)),
     emails |-> Values(DictGet(person, "emailAddresses", <<>>))]

GetContacts ==
    \E query \in Queries, listed \in BOOLEAN,
       refreshes \in BOOLEAN, grants_refresh \in BOOLEAN :
        LET g == GetService(token_files["people"], refreshes, grants_refresh)
            all_contacts == people
            lower_query == Lower(query)
            Matched(person) == Match(person, lower_query)
            matched == SelectSeq(all_contacts, Matched)
            found_contacts == [i \in DOMAIN matched |-> Found(matched[i])]
        IN
        /\ Called("people", g)
        /\ tool_in' = [tool |-> "get_contacts", query |-> query]
        /\ tool_out' =
              IF ~g.returned THEN GetterRaised
              ELSE IF ~listed
              THEN [st |-> "text", text |-> <<"An error occurred: ", "HttpError">>]
              ELSE IF found_contacts # <<>>
              THEN [st |-> "list", text |-> found_contacts]
              ELSE [st |-> "text", text |-> <<"No contacts found matching that query.">>]
        /\ UNCHANGED <<mailbox, people, loopvars, requestvars, servervars>>

----------------------------------------------------------------------------
(* get_emails *)

\* The messages the account may hold that the query finds.
MaxListed == 6

\* What messages().list answers: the ids and threads of the messages
\* found, oldest first or newest first.
Listings ==
    UNION { { [i \in 1..n |-> [id |-> i, threadId |-> (i + 1) \div 2]],
              [i \in 1..n |-> [id |-> n + 1 - i, threadId |-> (n + 2 - i) \div 2]] } :
            n \in 0..MaxListed }

\* What messages().get answers for the message id: messages of even id
\* have no Subject header.
MessageData(id) ==
    [payload |->
        [headers |->
            <<[name |-> "From", value |-> <<"f@x">>]>> \o
            (IF id % 2 = 1 THEN <<[name |-> "Subject", value |-> <<"H", "i">>]>>
             ELSE <<>>)],
     snippet |-> id]

\* messages[:5]
ShownAll(found) == found
Shown(found) ==
    SubSeq(found, 1, IF Len(found) < 5 THEN Len(found) ELSE 5)

GetEmails ==
    \E refreshes \in BOOLEAN, grants_refresh \in BOOLEAN :
        LET g == GetService(token_files["gmail"], refreshes, grants_refresh)
            found == mailbox.listing
            listed == [api |-> "messages.list", q |-> "q"]
            shown == Shown(found)
            Email(msg) ==
                LET msg_data == MessageData(msg.id)
                    headers == msg_data.payload.headers
                IN [id |-> msg.id, threadId |-> msg.threadId,
                    subject |-> Get(headers, "Subject", <<>>),
                    from |-> Get(headers, "From", <<>>),
                    snippet |-> msg_data.snippet]
        IN
        /\ Called("gmail", g)
        /\ tool_in' = [tool |-> "get_emails", query |-> "q"]
        /\ IF ~g.returned
           THEN /\ tool_out' = GetterRaised
                /\ mailbox' = [mailbox EXCEPT !.calls = <<>>]
           ELSE IF found = <<>>
           THEN /\ tool_out' = [st |-> "text", text |-> <<"No emails found for that query.">>]
                /\ mailbox' = [mailbox EXCEPT !.calls = <<listed>>]
           ELSE /\ tool_out' = [st |-> "list",
                                text |-> [i \in 1..Len(shown) |-> Email(shown[i])]]
                /\ mailbox' = [mailbox EXCEPT !.calls =
                                  <<listed>> \o [i \in 1..Len(shown) |->
                                                   [api |-> "messages.get", id |-> shown[i].id]]]
        /\ UNCHANGED <<people, loopvars, requestvars, servervars>>

----------------------------------------------------------------------------
(* The process over time: the directives and the clock *)

\* How long the process is watched.
MaxClock == 3

\* What the requests and the tools leave alone while time is looked at.
idlevars == <<loopvars, requestvars, providervars, calendar>>

\* Time passes.
Tick ==
    /\ clock < MaxClock
    /\ clock' = clock + 1
    /\ UNCHANGED <<supervisor_prompt, served, idlevars>>

\* A request arrives at /invoke of the running process.
Arrive ==
    /\ served.st = "idle"
    /\ served' = [st |-> "serving", arrived |-> clock, told |-> <<>>,
                  calendar_told |-> <<>>]
    /\ UNCHANGED <<clock, supervisor_prompt, idlevars>>

\* The time the directive of the supervisor's call_model presents as the
\* current one: that of SUPERVISOR_SYSTEM_PROMPT, a module-level f-string,
\* which read datetime.now() when the module was imported.
SupervisorDirective == supervisor_prompt

\* A Reasoning Step of the supervisor for the request: call_model passes
\* SystemMessage(content=SUPERVISOR_SYSTEM_PROMPT).
SupervisorCallModel ==
    /\ served.st = "serving"
    /\ Len(served.told) + Len(served.calendar_told) < RecursionLimit
    /\ served' = [served EXCEPT !.told = Append(@, SupervisorDirective)]
    /\ UNCHANGED <<clock, supervisor_prompt, idlevars>>

\* run_calendar_agent for the request: create_calendar_agent_app builds its
\* SYSTEM_PROMPT, an f-string in the function body, which reads
\* datetime.now() at this call.
CreateCalendarAgentApp ==
    /\ served.st = "serving"
    /\ Len(served.told) + Len(served.calendar_told) < RecursionLimit
    /\ served' = [served EXCEPT !.calendar_told = Append(@, clock)]
    /\ UNCHANGED <<clock, supervisor_prompt, idlevars>>

\* The request has been answered; the process goes on running.
Answered ==
    /\ served.st = "serving"
    /\ served.told # <<>>
    /\ served' = [served EXCEPT !.st = "idle"]
    /\ UNCHANGED <<clock, supervisor_prompt, idlevars>>

----------------------------------------------------------------------------
(* The specification *)

\* No request is being served.
NoServed == [st |-> "idle", arrived |-> 0, told |-> <<>>, calendar_told |-> <<>>]

\* No call of get_calendar_events has been made.
NoCalendar == [events |-> <<>>, now_utc |-> <<>>, calls |-> <<>>]

InitLoops ==
    /\ driver = "none"
    /\ catch_all \in BOOLEAN
    /\ messages = [l \in Loops |-> <<>>]
    /\ node = [l \in Loops |-> "idle"]
    /\ step = [l \in Loops |-> 0]
    /\ kind = [l \in Loops |-> IF l = Sup THEN "supervisor" ELSE "none"]
    /\ ret = [l \in Loops |-> NoRet]
    /\ final_answer = [l \in Loops |-> ""]
    /\ event = NoEvent
    /\ stream = "idle"
    /\ emitted = <<>>
    /\ functions = [l \in Loops |-> <<>>]
    /\ chat_request = NoRequest
    /\ prompted = [l \in Loops |-> <<>>]
    /\ clock = 0
    /\ supervisor_prompt = clock
    /\ served = NoServed

\* No provider tool has been called on its own.
InitProviders ==
    /\ mailbox = NoMailbox
    /\ people = <<>>
    /\ tool_in = NoArgs
    /\ tool_out = NoOut
    /\ token_files = [s \in Services |-> NoToken]
    /\ service = [s \in Services |-> NoService]
    /\ calendar = NoCalendar

Init ==
    /\ InitLoops
    /\ InitProviders
    /\ recursion_limit = RecursionLimit
    /\ token_file = NoFile
    /\ gmail = [r \in Clients |-> NoCall]
    /\ transcripts = [r \in Clients |-> <<>>]

\* The requests, with the token file as they may find it on disk.
InitRequests ==
    /\ InitLoops
    /\ InitProviders
    /\ recursion_limit = RecursionLimit
    /\ token_file \in TokenFiles
    /\ gmail = [r \in Clients |-> NoCall]
    /\ transcripts = [r \in Clients |-> <<>>]

NextRequests ==
    \/ \E r \in Clients : RequestInvoke(r)
    \/ \E r \in Clients : GmailLoad(r)
    \/ \E r \in Clients : GmailRenew(r)
    \/ \E r \in Clients : GmailOpen(r)
    \/ \E r \in Clients : GmailWrite(r)
    \/ \E r \in Clients : GmailBuild(r)

SpecRequests == InitRequests /\ [][NextRequests]_vars

\* The getters called one after the other, with the token files as the
\* first call may find them on disk.
InitServices ==
    /\ InitLoops
    /\ recursion_limit = RecursionLimit
    /\ token_file = NoFile
    /\ gmail = [r \in Clients |-> NoCall]
    /\ transcripts = [r \in Clients |-> <<>>]
    /\ mailbox = NoMailbox
    /\ people = <<>>
    /\ tool_in = NoArgs
    /\ tool_out = NoOut
    /\ token_files \in [Services -> StoredTokens]
    /\ service = [s \in Services |-> NoService]
    /\ calendar = NoCalendar

NextServices == \E s \in Services : GetterCall(s)

SpecServices == InitServices /\ [][NextServices]_vars

\* No loop runs and no request is being served.
InitCallers ==
    /\ InitLoops
    /\ recursion_limit = RecursionLimit
    /\ token_file = NoFile
    /\ gmail = [r \in Clients |-> NoCall]
    /\ transcripts = [r \in Clients |-> <<>>]
    /\ tool_in = NoArgs
    /\ tool_out = NoOut
    /\ service = [s \in Services |-> NoService]

\* The token files of the services hold the same, whatever it is.
InitTokens == \E t \in StoredTokens : token_files = [s \in Services |-> t]

\* add_label_to_email called again and again on a message of an account
\* that has some labels, the message some of them.
InitLabel ==
    /\ InitCallers
    /\ InitTokens
    /\ mailbox \in {[labels |-> ls, message_labels |-> on, original |-> <<>>,
                      calls |-> <<>>] :
                        ls \in LabelLists, on \in {{}, {"INBOX"}, {"INBOX", "L1"}}}
    /\ people = <<>>
    /\ calendar = NoCalendar

NextLabel == AddLabelToEmail

SpecLabel == InitLabel /\ [][NextLabel]_vars

\* add_or_update_contact called again and again on an account without contacts.
InitContact ==
    /\ InitCallers
    /\ InitTokens
    /\ mailbox = NoMailbox
    /\ people = <<>>
    /\ calendar = NoCalendar

NextContact == AddOrUpdateContact

SpecContact == InitContact /\ [][NextContact]_vars

\* reply_to_email called again and again on a message of the account.
InitReply ==
    /\ InitCallers
    /\ InitTokens
    /\ mailbox \in {[labels |-> <<>>, message_labels |-> {"INBOX"}, original |-> o,
                      calls |-> <<>>] : o \in Originals}
    /\ people = <<>>
    /\ calendar = NoCalendar

NextReply == ReplyToEmail

SpecReply == InitReply /\ [][NextReply]_vars

\* get_calendar_events called again and again, on any of the dates, on a
\* calendar with the events or with none.
InitCalendar ==
    /\ InitCallers
    /\ \E t \in {c \in StoredTokens : c.refresh_token /\ (c.valid \/ c.expired)} :
          token_files = [s \in Services |-> t]
    /\ mailbox = NoMailbox
    /\ people = <<>>
    /\ calendar \in {[NoCalendar EXCEPT !.events = es] : es \in {<<>>, Events_}}

NextCalendar == GetCalendarEvents

SpecCalendar == InitCalendar /\ [][NextCalendar]_vars

\* get_contacts called again and again on an account whose connections are
\* some of the persons.
InitContacts ==
    /\ InitCallers
    /\ InitTokens
    /\ mailbox = NoMailbox
    /\ people \in Connections
    /\ calendar = NoCalendar

NextContacts == GetContacts

SpecContacts == InitContacts /\ [][NextContacts]_vars

\* get_emails called again and again on an account whose listing for the
\* query is one of the listings.
InitEmails ==
    /\ InitCallers
    /\ InitTokens
    /\ mailbox \in {[labels |-> <<>>, message_labels |-> {}, original |-> <<>>,
                      calls |-> <<>>, listing |-> ms] : ms \in Listings}
    /\ people = <<>>
    /\ calendar = NoCalendar

NextEmails == GetEmails

SpecEmails == InitEmails /\ [][NextEmails]_vars

\* The process once SupervisorAgent has been imported, serving requests as
\* time passes.
InitServer ==
    /\ InitLoops
    /\ InitProviders
    /\ recursion_limit = RecursionLimit
    /\ token_file = NoFile
    /\ gmail = [r \in Clients |-> NoCall]
    /\ transcripts = [r \in Clients |-> <<>>]

NextServer ==
    \/ Tick
    \/ Arrive
    \/ SupervisorCallModel
    \/ CreateCalendarAgentApp
    \/ Answered

SpecServer == InitServer /\ [][NextServer]_vars

\* test_all_agents alone: one specialist graph at a time, driven directly,
\* which leaves room to scale the default recursion limit less.
InitDirect ==
    /\ InitLoops
    /\ InitProviders
    /\ recursion_limit = RecursionLimit + 1
    /\ token_file = NoFile
    /\ gmail = [r \in Clients |-> NoCall]
    /\ transcripts = [r \in Clients |-> <<>>]

NextDirect ==
    \/ TestAgent
    \/ TestNextAgent
    \/ \E l \in Slots : ModelStep(l)
    \/ \E l \in Slots : ModelFails(l)
    \/ \E l \in Slots : RecursionError(l)
    \/ \E l \in Slots : ToolStep(l)
    \/ \E l \in Slots : SpecialistReturn(l)

SpecDirect == InitDirect /\ [][NextDirect]_vars

Next ==
    \/ Invoke
    \/ TestAgent
    \/ TestNextAgent
    \/ \E l \in Loops : ModelStep(l)
    \/ \E l \in Loops : ModelFails(l)
    \/ \E l \in Loops : RecursionError(l)
    \/ \E l \in Slots : ToolStep(l)
    \/ \E l \in Slots : SpecialistReturn(l)
    \/ SupActionStart
    \/ \E l \in Slots : Delegate(l)
    \/ SupActionJoin
    \/ StreamConsume
    \/ StreamExcept
    \/ StreamEnd

Spec == Init /\ [][Next]_vars

\* The run of a specialist node by node and RunAgent agree.
StepwiseAgrees ==
    \A l \in Slots :
        (driver = "test" /\ ret[l] # NoRet /\ recursion_limit = RecursionLimit)
            => ret[l] \in AgentResults[kind[l], catch_all]

----------------------------------------------------------------------------
(* Properties *)

IsPrefix(s, t) == Len(s) <= Len(t) /\ SubSeq(t, 1, Len(s)) = s

\* The positions of the tool results of msgs that answer the call with this id.
Answers(msgs, id) ==
    {i \in DOMAIN msgs : msgs[i].type = "tool" /\ msgs[i].tool_call_id = id}

\* The calls (message position, call position) before position i with this id.
Requests(msgs, i, id) ==
    {p \in (1..(i - 1)) \X CallCounts :
        /\ p[2] \in DOMAIN msgs[p[1]].tool_calls
        /\ msgs[p[1]].tool_calls[p[2]].id = id}

\* C1: a run of any loop executes at most RecursionLimit supersteps; one that
\* is not at END by then stops with GraphRecursionError, which reaches the
\* caller: as the exception of run_<x>_agent, or as the {error} event.
C1_LoopBounded ==
    /\ \A l \in Loops :
          /\ step[l] <= RecursionLimit
          /\ node[l] = "GraphRecursionError" => step[l] = RecursionLimit
          /\ (l \in Slots /\ node[l] = "GraphRecursionError" /\ ret[l] # NoRet)
                => ret[l].st = "raised"
    /\ (node[Sup] = "GraphRecursionError" /\ stream = "closed") => emitted = <<ErrorEvent>>

\* C1 witness: the supervisor run used up its supersteps and /invoke said so.
C1_Witness ==
    /\ node[Sup] = "GraphRecursionError"
    /\ step[Sup] = RecursionLimit
    /\ emitted = <<ErrorEvent>>

\* C2: when the event stream of /invoke has closed, it has delivered an event.
C2_TerminalEventDelivered == stream = "closed" => Len(emitted) >= 1

\* C3: the event stream of /invoke yields at most one event.
C3_AtMostOneEvent == Len(emitted) <= 1

\* C3 witness: the stream closed on its one event after the supervisor and the
\* action node had both produced events.
C3_Witness == stream = "closed" /\ Len(emitted) = 1 /\ step[Sup] >= 3

\* C4: a content event carries the content of the supervisor's last message,
\* made by the supervisor's model node, which requests no action and on which
\* the supervisor graph went to END.
C4_ContentOnlyWhenDone ==
    \A i \in DOMAIN emitted :
        emitted[i].kind = "content" =>
            /\ node[Sup] = "END"
            /\ Last(messages[Sup]).type = "ai"
            /\ Last(messages[Sup]).by = Sup
            /\ ~should_continue(messages[Sup])
            /\ Last(messages[Sup]).tool_calls = <<>>
            /\ emitted[i].text = Last(messages[Sup]).content

\* C4 witness: the answer that follows a delegation has been yielded.
C4_Witness ==
    /\ emitted = <<ContentEvent("ans")>>
    /\ \E i \in DOMAIN messages[Sup] : messages[Sup][i].type = "tool"

\* C5: no exception of a tool leaves the action node of a loop.
C5_ToolFailureCaught == \A l \in Loops : node[l] # "ToolError"

\* C6: a specialist tool comes back with text, never with an exception.
C6_SpecialistReturnsText == \A l \in Slots : ret[l].st # "raised"

\* C7: the text a specialist returns is the content of the last message of its
\* transcript, the final answer on which its graph went to END.
C7_ReturnsFinalAnswer ==
    \A l \in Slots :
        (driver = "test" /\ node[l] = "END" /\ ret[l] # NoRet) =>
            ret[l].text = Last(messages[l]).content

\* C8: in the supervisor's transcript every message was made by the caller or
\* by the supervisor's own nodes, and every delegation of an action step that
\* has completed is answered by exactly one tool message.
C8_OneResultPerDelegation ==
    LET msgs == messages[Sup] IN
    /\ \A i \in DOMAIN msgs : msgs[i].by \in {Caller, Sup}
    /\ \A j \in DOMAIN msgs : \A c \in DOMAIN msgs[j].tool_calls :
          Cardinality(Answers(msgs, msgs[j].tool_calls[c].id)) = IF j < Len(msgs) THEN 1 ELSE 0
    /\ \A i \in DOMAIN msgs : msgs[i].type = "human" => msgs[i].by = Caller

\* C8 witness: two delegations of one action step have been answered.
C8_Witness ==
    LET msgs == messages[Sup] IN
    \E j \in DOMAIN msgs :
        /\ Len(msgs[j].tool_calls) = 2
        /\ j + 2 <= Len(msgs)
        /\ msgs[j + 1].type = "tool" /\ msgs[j + 2].type = "tool"

\* C9: every step of a run leaves the run's transcript a prefix of what it
\* becomes; only the call that starts the next run of a specialist, after
\* the last one has returned, begins a transcript anew.
C9_AppendOnly ==
    [][\A l \in Loops :
          (ret[l] = NoRet \/ ret'[l] # NoRet) => IsPrefix(messages[l], messages'[l])]_vars

\* C9 witness: a transcript that grew by a request, its results and an answer.
C9_Witness ==
    \E l \in Loops : \E i \in DOMAIN messages[l] :
        /\ messages[l][i].type = "tool"
        /\ Last(messages[l]).type = "ai"
        /\ node[l] = "END"

\* Every tool result of msgs answers exactly one earlier call, and no call is
\* answered twice.
ValidChain(msgs) ==
    /\ \A i \in DOMAIN msgs :
          msgs[i].type = "tool" =>
              Cardinality(Requests(msgs, i, msgs[i].tool_call_id)) = 1
    /\ \A j \in DOMAIN msgs : \A c \in DOMAIN msgs[j].tool_calls :
          Cardinality(Answers(msgs, msgs[j].tool_calls[c].id)) <= 1

\* The transcripts on which the runs of the specialists end, as RunModel has them.
AgentRunsValid ==
    \A k \in Range(tools) : \A ca \in BOOLEAN :
        \A e \in RunModel(1, k, ca, Fresh(1, "sq", <<>>), 0, "") : ValidChain(e.messages)

\* C10: in every transcript each tool result resolves to exactly one earlier
\* action request and no action request has two results.
C10_ValidChain == AgentRunsValid /\ \A l \in Loops : ValidChain(messages[l])

\* C10 witness: a specialist's transcript in which the two calls of one
\* request have each been answered.
C10_Witness ==
    \E l \in Slots : \E j \in DOMAIN messages[l] :
        /\ Len(messages[l][j].tool_calls) = 2
        /\ j + 2 <= Len(messages[l])
        /\ messages[l][j + 2].tool_call_id = messages[l][j].tool_calls[2].id

\* C11: in every loop each step of the action node runs exactly one action:
\* it appends one tool result, the result of the one call of the request it
\* follows, and hands the transcript that ends with it to the model node.
C11_StrictAlternation ==
    [][\A l \in Loops :
          (node[l] \in {"action", "acting"} /\ node'[l] = ModelNode(l)) =>
              /\ Len(messages'[l]) = Len(messages[l]) + 1
              /\ Last(messages'[l]).type = "tool"
              /\ Last(messages'[l]).tool_call_id = Last(messages[l]).tool_calls[1].id]_vars

\* C12: under one request at most one specialist loop is in flight, and only
\* while the supervisor's action node waits for it.
C12_SynchronousNesting ==
    /\ Cardinality({l \in Slots : node[l] = "running"}) <= 1
    /\ (\E l \in Slots : node[l] \in {"running", "returned"}) => node[Sup] = "acting"

\* In msgs, a transcript of a loop of kind k, every answered call that
\* satisfies Case is answered, in its place, by a tool message with this
\* text, for which no tool ran.
CapturedAs(k, msgs, Case(_), Text(_)) ==
    \A j \in DOMAIN msgs : \A c \in DOMAIN msgs[j].tool_calls :
        LET call == msgs[j].tool_calls[c] IN
        (Case(call) /\ j < Len(msgs)) =>
            /\ j + c <= Len(msgs)
            /\ msgs[j + c].type = "tool"
            /\ msgs[j + c].tool_call_id = call.id
            /\ msgs[j + c].content = Text(call)
            /\ msgs[j + c].ran = "none"

\* An exception that left the action node of a loop came from a tool that ran.
RaisedByTool(k, nd, msgs) ==
    nd = "ToolError" =>
        \E c \in DOMAIN Last(msgs).tool_calls :
            LET call == Last(msgs).tool_calls[c]
            IN call.name \in Registry(k) /\ call.conforms

UnknownTool(k, msgs) ==
    LET Case(call) == call.name \notin Registry(k)
        Text(call) == "Error: " \o call.name \o " is not a valid tool"
    IN CapturedAs(k, msgs, Case, Text)

\* The same of every run of each specialist, as RunModel has them.
UnknownToolInRuns ==
    \A k \in Range(tools) : \A e \in AgentRuns[k] :
        UnknownTool(k, e.messages) /\ RaisedByTool(k, e.node, e.messages)

\* C13: a call that names a tool the loop's registry does not hold is answered
\* by a tool message whose text names the tool; no tool runs for it, nothing is
\* raised for it, and the model node runs next.
C13_UnknownToolCaptured ==
    /\ UnknownToolInRuns
    /\ \A l \in Loops :
          /\ UnknownTool(kind[l], messages[l])
          /\ RaisedByTool(kind[l], node[l], messages[l])
          /\ (node[l] = "supervisor" /\ step[l] > 0) => Last(messages[l]).type = "tool"

\* C13 witness: the supervisor asked for a tool it does not have, got the
\* error text back and its model node is next.
C13_Witness ==
    /\ node[Sup] = "supervisor"
    /\ Last(messages[Sup]).type = "tool"
    /\ Last(messages[Sup]).content = "Error: send_email is not a valid tool"
    /\ Len(messages[Sup][Len(messages[Sup]) - 1].tool_calls) = 1

BadArguments(k, msgs) ==
    LET Case(call) == call.name \in Registry(k) /\ ~call.conforms
        Text(call) == "Error: validation error. Please fix your mistakes."
    IN CapturedAs(k, msgs, Case, Text)

BadArgumentsInRuns ==
    \A k \in Range(tools) : \A e \in AgentRuns[k] : BadArguments(k, e.messages)

\* C14: a call whose arguments do not fit the schema of the tool it names is
\* answered by a tool message that carries the validation error; the tool's
\* function does not run, nothing is raised for it, and the model node runs next.
C14_BadArgumentsCaptured ==
    /\ BadArgumentsInRuns
    /\ \A l \in Loops :
          /\ BadArguments(kind[l], messages[l])
          /\ (node[l] = "ToolError" =>
                 \E c \in DOMAIN Last(messages[l]).tool_calls :
                     Last(messages[l]).tool_calls[c].conforms)
          /\ (node[l] = "agent" /\ step[l] > 0) => Last(messages[l]).type = "tool"

\* C14 witness: the contact specialist called get_contacts with arguments
\* that do not fit, and its model node sees the validation error next.
C14_Witness ==
    /\ kind[1] = "run_contact_agent"
    /\ node[1] = "agent"
    /\ Last(messages[1]).content = "Error: validation error. Please fix your mistakes."
    /\ Len(messages[1]) = 3
    /\ ~messages[1][2].tool_calls[1].conforms

\* C15: when the supervisor's action node has appended its results the
\* supervisor's model node is next, whatever the results say; and after the
\* model node the graph goes to the action node exactly if the reply carries
\* a function call, and to END exactly if it does not.
C15_FailureDoesNotEnd ==
    [][/\ (node[Sup] = "acting" /\ messages'[Sup] # messages[Sup]) =>
              node'[Sup] = "supervisor"
       /\ (node[Sup] = "supervisor" /\ messages'[Sup] # messages[Sup]) =>
              /\ node'[Sup] = "action"
                    <=> "function_call" \in Last(messages'[Sup]).additional_kwargs
              /\ node'[Sup] = "END"
                    <=> "function_call" \notin Last(messages'[Sup]).additional_kwargs]_vars

\* C15 witness: a delegation failed, and the supervisor's next reply asked
\* for another delegation, which its action node is about to run.
C15_Witness ==
    LET msgs == messages[Sup] IN
    /\ node[Sup] = "action"
    /\ Len(msgs) >= 3
    /\ msgs[Len(msgs) - 1].type = "tool"
    /\ msgs[Len(msgs) - 1].content = "Error: exception"
    /\ Last(msgs).tool_calls # <<>>

\* C16: of two requests served at once, each holds only messages of its own,
\* and the credentials a request works with were on disk before the requests
\* or are its own: no request reads what the other wrote to the token file,
\* whole or half-written.
C16_RequestsIsolated ==
    \A r \in Clients :
        /\ \A i \in DOMAIN transcripts[r] : transcripts[r][i].content = Query(r)
        /\ gmail[r].creds.by \in {0, r}
        /\ gmail[r].pc # "raised"

\* C17: a loop whose first reply requests no action is at END after one
\* step, with that reply as the one message added to what the caller
\* supplied and no tool message, and what the loop hands out is the reply's
\* content: the text run_<x>_agent returns, the {content} event of /invoke.
C17_DirectAnswer ==
    \A l \in Loops :
        (node[l] = "END" /\ step[l] = 1) =>
            LET msgs == messages[l] IN
            /\ Last(msgs).type = "ai" /\ Last(msgs).by = l
            /\ Last(msgs).tool_calls = <<>>
            /\ \A i \in 1..(Len(msgs) - 1) :
                  msgs[i].type # "tool" /\ (msgs[i].type = "ai" => msgs[i].by = Caller)
            /\ (l \in Slots /\ ret[l] # NoRet) =>
                  ret[l] = [st |-> "text", text |-> Last(msgs).content]
            /\ (l = Sup /\ stream = "closed") =>
                  emitted = <<ContentEvent(Last(msgs).content)>>

\* The history entries of type human or ai, each converted, in their order.
Converted(history) ==
    LET Kept(e) == e.type \in {"human", "ai"}
        kept == SelectSeq(history, Kept)
    IN [i \in 1..Len(kept) |->
           IF kept[i].type = "human" THEN HumanMessage(kept[i].content, Caller)
           ELSE AIMessage(kept[i].content, {}, <<>>, Caller)]

\* C18: the supervisor's transcript of a request starts with the converted
\* history entries of type human and ai, each once and in their order,
\* followed by one human message that carries the query.
C18_InitialTranscript ==
    driver = "main" =>
        LET initial == Converted(chat_request.history)
                          \o <<HumanMessage(chat_request.query, Caller)>>
        IN /\ IsPrefix(initial, messages[Sup])
           /\ step[Sup] = 0 => messages[Sup] = initial
           /\ \A i \in DOMAIN messages[Sup] :
                 i > Len(initial) => messages[Sup][i].by # Caller

\* C18 witness: a request with a history of a human, a system and an ai
\* entry, before the first step of the supervisor.
C18_Witness ==
    /\ driver = "main"
    /\ step[Sup] = 0
    /\ Len(chat_request.history) = 3
    /\ Len(messages[Sup]) = 3
    /\ messages[Sup][3].content = "q"

\* In msgs, two answered calls of the same tool with the same arguments
\* resolve to the same tool.
SameTool(msgs) ==
    \A j1, j2 \in DOMAIN msgs :
        \A c1 \in DOMAIN msgs[j1].tool_calls : \A c2 \in DOMAIN msgs[j2].tool_calls :
            ( /\ j1 + c1 <= Len(msgs) /\ j2 + c2 <= Len(msgs)
              /\ msgs[j1].tool_calls[c1].name = msgs[j2].tool_calls[c2].name
              /\ msgs[j1].tool_calls[c1].conforms = msgs[j2].tool_calls[c2].conforms )
            => msgs[j1 + c1].ran = msgs[j2 + c2].ran

OwnTools(k, msgs) ==
    \A i \in DOMAIN msgs :
        msgs[i].type = "tool" => msgs[i].ran \in Registry(k) \cup {"none"}

OwnToolsInRuns ==
    \A k \in Range(tools) : \A e \in AgentRuns[k] : OwnTools(k, e.messages)

\* C20: a loop runs only tools of its own registry: the supervisor the five
\* specialist tools, a specialist the tools of its domain (6 mail tools, 4
\* event tools, 2 contact tools, tavily_search alone for content and search).
C20_OwnRegistryOnly ==
    /\ OwnToolsInRuns
    /\ \A l \in Loops : OwnTools(kind[l], messages[l])
    /\ \A l \in Slots : node[l] \in {"running", "returned"} => kind[l] \in Range(tools)
    /\ Cardinality(Registry("supervisor")) = 5
    /\ Cardinality(Registry("run_email_agent")) = 6
    /\ Cardinality(Registry("run_calendar_agent")) = 4
    /\ Cardinality(Registry("run_contact_agent")) = 2
    /\ Registry("run_content_creator_agent") = {"tavily_search"}
    /\ Registry("run_search_agent") = {"tavily_search"}

\* C20 witness: the contact specialist asked for get_contacts and for
\* send_email, a tool of the mail specialist; only get_contacts ran.
C20_Witness ==
    /\ kind[1] = "run_contact_agent"
    /\ Len(messages[1]) = 4
    /\ messages[1][2].tool_calls[1].name = "get_contacts"
    /\ messages[1][2].tool_calls[2].name = "send_email"
    /\ messages[1][3].ran = "get_contacts"
    /\ messages[1][4].ran = "none"

\* The replies of loop l in msgs, and the calls it has made in them.
RepliesIn(l, msgs) == {i \in DOMAIN msgs : msgs[i].type = "ai" /\ msgs[i].by = l}
CallsIn(l, msgs) ==
    UNION { {msgs[i].tool_calls[c] : c \in DOMAIN msgs[i].tool_calls} : i \in RepliesIn(l, msgs) }

\* The texts of a tool result that reports a failure.
FailureTexts ==
    {"An error occurred", "Error: exception",
     "Error: validation error. Please fix your mistakes."}

\* In loop l the model has asked for one and the same action in every reply,
\* and every time the action has failed.
Runaway(l) ==
    LET msgs == messages[l] IN
    /\ RepliesIn(l, msgs) # {}
    /\ \A i \in RepliesIn(l, msgs) :
          "function_call" \in msgs[i].additional_kwargs /\ Len(msgs[i].tool_calls) = 1
    /\ Cardinality({[name |-> c.name, conforms |-> c.conforms] : c \in CallsIn(l, msgs)}) = 1
    /\ \A i \in DOMAIN msgs : msgs[i].type = "tool" => msgs[i].content \in FailureTexts
    /\ node[l] # "ModelError"

\* C21: a loop whose model asks for the same always-failing action in every
\* reply ends only with GraphRecursionError, after exactly as many supersteps
\* as the recursion limit.
C21_RunawayGuard ==
    \A l \in Loops :
        (Runaway(l) /\ node[l] \in Ended) =>
            node[l] = "GraphRecursionError" /\ step[l] = recursion_limit

\* A call that ToolNode answers without running a tool.
Invalid(k, call) == call.name \notin Registry(k) \/ ~call.conforms

\* In msgs, a transcript of a loop of kind k, the reply at i makes only
\* invalid calls and all of them have been answered.
InvalidAnswered(k, msgs, i) ==
    /\ i \in DOMAIN msgs
    /\ msgs[i].tool_calls # <<>>
    /\ \A c \in DOMAIN msgs[i].tool_calls : Invalid(k, msgs[i].tool_calls[c])
    /\ i + Len(msgs[i].tool_calls) <= Len(msgs)

\* Two replies in a row made only invalid calls, and the action node has
\* answered the second as it answered the first.
TwoInvalidAnswered(k, msgs) ==
    \E i \in DOMAIN msgs :
        /\ InvalidAnswered(k, msgs, i)
        /\ InvalidAnswered(k, msgs, i + Len(msgs[i].tool_calls) + 1)

OnlyInvalid(l) ==
    LET msgs == messages[l] IN
    /\ RepliesIn(l, msgs) # {}
    /\ \A i \in RepliesIn(l, msgs) :
          /\ msgs[i].tool_calls # <<>>
          /\ \A c \in DOMAIN msgs[i].tool_calls : Invalid(kind[l], msgs[i].tool_calls[c])
    /\ node[l] # "ModelError"

StartedFresh(l, query, msgs) ==
    /\ msgs[1] = HumanMessage(query, l)
    /\ \A i \in DOMAIN msgs : msgs[i].by = l /\ (i > 1 => msgs[i].type # "human")

FreshInRuns ==
    \A k \in Range(tools) : \A e \in AgentRuns[k] : StartedFresh(1, "sq", e.messages)

\* C23: every run of a specialist starts from one human message that carries
\* the query and holds only messages of its own, and what a delegation
\* returns is one of the results of that specialist on that query alone.
C23_FreshTranscript ==
    /\ FreshInRuns
    /\ \A l \in Slots :
          /\ messages[l] # <<>> => StartedFresh(l, "tq", messages[l])
          /\ (node[l] = "agent" /\ step[l] = 0) => messages[l] = <<HumanMessage("tq", l)>>
          /\ node[l] = "returned" => ret[l] \in AgentResults[kind[l], catch_all]

\* C23 witness: the script's second call, of the contact specialist, begins
\* after the mail specialist has run and returned.
C23_Witness ==
    /\ driver = "test"
    /\ kind[1] = "run_contact_agent"
    /\ node[1] = "agent" /\ step[1] = 0
    /\ messages[1] = <<HumanMessage("tq", 1)>>

\* C24: of the events of a supervisor run at most one is of the supervisor
\* node with empty additional_kwargs, and it is the last, on which the graph
\* is at END; what event_stream of main.py yields on the first such event is
\* what run_super.py holds after the last one.
C24_ExtractionsAgree ==
    driver = "main" =>
        LET evs == Events(messages[Sup])
            matches == {j \in DOMAIN evs :
                           evs[j].key = "supervisor" /\ evs[j].last.additional_kwargs = {}}
            held == RunSuper(evs, "")
        IN /\ Cardinality(matches) <= 1
           /\ \A j \in matches : j = Len(evs) /\ node[Sup] = "END"
           /\ (stream = "closed" /\ node[Sup] = "END") =>
                 emitted = IF held = "" THEN <<>> ELSE <<ContentEvent(held)>>
           /\ node[Sup] \in Raised => held = ""

\* C24 witness: a run with a delegation whose final reply was yielded.
C24_Witness ==
    /\ stream = "closed" /\ node[Sup] = "END"
    /\ Len(Events(messages[Sup])) = 3
    /\ RunSuper(Events(messages[Sup]), "") = "ans"
    /\ emitted = <<ContentEvent("ans")>>

\* The last message of msgs is a reply of loop l's model that asks for nothing.
EndsOnAnswer(l, msgs) ==
    /\ Last(msgs).type = "ai" /\ Last(msgs).by = l
    /\ Last(msgs).tool_calls = <<>>
    /\ "function_call" \notin Last(msgs).additional_kwargs

LastReaders == {"run_calendar_agent", "run_contact_agent"}

FinalInRuns ==
    \A k \in Range(tools) : \A e \in AgentRuns[k] :
        e.node = "END" =>
            /\ EndsOnAnswer(1, e.messages)
            /\ k \in LastReaders =>
                  AgentReturn(k, e.messages, e.fa) = Last(e.messages).content

\* C25: a loop at END has as its last message a reply of its own model that
\* asks for no action, and run_calendar_agent and run_contact_agent, which
\* read the last message, return its content.
C25_LastIsFinalAnswer ==
    /\ FinalInRuns
    /\ \A l \in Loops :
          node[l] = "END" =>
              /\ EndsOnAnswer(l, messages[l])
              /\ (l \in Slots /\ kind[l] \in LastReaders /\ ret[l] # NoRet) =>
                    ret[l] = [st |-> "text", text |-> Last(messages[l]).content]

\* C25 witness: the calendar specialist ran a tool, answered and returned.
C25_Witness ==
    /\ kind[1] = "run_calendar_agent"
    /\ node[1] = "END"
    /\ ret[1] = [st |-> "text", text |-> "ans"]
    /\ Len(messages[1]) = 4
    /\ messages[1][3].type = "tool"

\* C26: what call_model passes to the model is one system message, the
\* loop's directive, followed by the transcript as it was; no transcript
\* holds a system message, and the step adds one assistant message to it.
C26_ModelInput ==
    \A l \in Loops :
        /\ \A i \in DOMAIN messages[l] : messages[l][i].type # "system"
        /\ prompted[l] # <<>> =>
              /\ Head(prompted[l]).type = "system"
              /\ Head(prompted[l]).content = kind[l]
              /\ \A i \in 2..Len(prompted[l]) : prompted[l][i].type # "system"
              /\ IsPrefix(Tail(prompted[l]), messages[l])
        /\ (prompted[l] # <<>> /\ node[l] \in {"action", "END"}) =>
              /\ Len(messages[l]) = Len(prompted[l])
              /\ Last(messages[l]).type = "ai"

\* C26 witness: the supervisor's second reply, to a transcript that holds
\* the history, the query, its first reply and a tool result.
C26_Witness ==
    /\ node[Sup] = "END"
    /\ Len(prompted[Sup]) = 6
    /\ prompted[Sup][6].type = "tool"
    /\ Len(messages[Sup]) = 6

\* C27: a call of a getter that finds valid credentials hands them out as
\* they are, without refresh, flow or write; one that finds expired
\* credentials with a refresh token refreshes them and runs no flow; every
\* other call runs the flow; a call that refreshed or obtained credentials
\* and returned has written them, valid, to the token file, and the call
\* after a call that returned finds valid credentials and reuses them.
C27_TokenLifecycle ==
    \A s \in Services :
        LET c == service[s] IN
        c.how # "none" =>
            /\ (c.found.state = "creds" /\ c.found.valid) =>
                  /\ c.how = "reuse" /\ ~c.wrote /\ c.returned
                  /\ c.creds = c.found /\ token_files[s] = c.found
            /\ (c.found.state = "creds" /\ ~c.found.valid
                   /\ c.found.expired /\ c.found.refresh_token) =>
                  c.how = "refresh"
            /\ (c.found.state = "absent"
                   \/ (~c.found.valid /\ ~(c.found.expired /\ c.found.refresh_token))) =>
                  c.how = "flow"
            /\ (c.how \in {"refresh", "flow"} /\ c.returned) =>
                  /\ c.wrote
                  /\ token_files[s] = c.creds
                  /\ c.creds.state = "creds" /\ c.creds.valid
            /\ ~c.returned => (~c.wrote /\ token_files[s] = c.found)
            /\ c.before \in {"reuse", "refresh", "flow"} =>
                  (c.found.state = "creds" /\ c.found.valid /\ c.how = "reuse")

\* C27 witness: the people getter refreshed expired credentials, and its
\* next call reused what that call had written.
C27_Witness ==
    /\ service["people"].before = "refresh"
    /\ service["people"].how = "reuse"
    /\ service["gmail"].how = "flow"
    /\ service["calendar"].before = "raised"

\* C28: a call of add_label_to_email whose label name equals, letter case
\* aside, the name of no label returns the not-found text, asks for no
\* modification and leaves the message's labels as they were; a call whose
\* name matches asks for one modification, which adds the id of the first
\* label that matches and removes none.
C28_LabelAdded ==
    [][ (tool_in'.tool = "add_label_to_email" /\ tool_out'.st = "text") =>
          LET label_name == tool_in'.label_name
              labels == mailbox.labels
              hits == {i \in DOMAIN labels : Lower(labels[i].name) = Lower(label_name)}
              modifies == {i \in DOMAIN mailbox'.calls :
                              mailbox'.calls[i].api = "messages.modify"}
          IN IF hits = {}
             THEN /\ tool_out'.text = <<"Error: Label '">> \o label_name
                                          \o <<"' not found.">>
                  /\ modifies = {}
                  /\ mailbox'.message_labels = mailbox.message_labels
             ELSE LET first == CHOOSE i \in hits : \A j \in hits : i <= j IN
                  /\ Cardinality(modifies) = 1
                  /\ \A i \in modifies :
                        /\ mailbox'.calls[i].id = tool_in'.message_id
                        /\ mailbox'.calls[i].body.addLabelIds = <<labels[first].id>>
                        /\ mailbox'.calls[i].body.removeLabelIds = <<>>
                  /\ mailbox'.message_labels =
                        mailbox.message_labels \cup {labels[first].id}
    ]_vars

\* C28 witness: asked for "ab", the tool added the label named "AB", the
\* first of two whose names match, to a message that kept its INBOX label.
C28_Witness ==
    /\ tool_in.tool = "add_label_to_email"
    /\ tool_in.label_name = <<"a", "b">>
    /\ tool_out.st = "text" /\ tool_out.text[1] = "Label '"
    /\ mailbox.message_labels = {"INBOX", "L2"}
    /\ Len(mailbox.labels) = 3

\* C28 witness: asked for a name no label has, the tool said so.
C28_WitnessNotFound ==
    /\ tool_in.tool = "add_label_to_email"
    /\ tool_in.label_name = <<"C", "d">>
    /\ tool_out.text = <<"Error: Label '", "C", "d", "' not found.">>
    /\ Len(mailbox.labels) = 1

\* C29: no two contacts of the account have the same name, however often
\* add_or_update_contact was called with it.
C29_UpsertByName ==
    \A i \in DOMAIN people, j \in DOMAIN people :
        people[i].names[1].givenName = people[j].names[1].givenName => i = j

\* What the last call of reply_to_email sent, if it sent.
Replied ==
    /\ tool_in.tool = "reply_to_email"
    /\ tool_out.st = "text"
Reply == Last(mailbox.calls)

\* The subject of a reply: the original's, with "Re: " before it unless it
\* begins with "re:" in whatever letter case; the same again on a reply.
SubjectRule ==
    LET subject == Get(mailbox.original.headers, "Subject", <<>>) IN
    /\ Reply.subject =
          IF Len(subject) >= 3 /\ Lower(SubSeq(subject, 1, 3)) = <<"r", "e", ":">>
          THEN subject ELSE <<"R", "e", ":", " ">> \o subject
    /\ ReplySubject(Reply.subject) = Reply.subject

C30_WitnessPrefixed ==
    /\ Replied
    /\ Reply.subject = <<"R", "e", ":", " ", "r", "e", " ", "H", "i">>
    /\ Reply.to = <<"f@x">>
    /\ Has(mailbox.original.headers, "Reply-To")

\* C33: the time every Reasoning Step of the supervisor is told as the
\* current one is not before the arrival of the request it works for.
C33_DirectiveCurrent ==
    \A i \in DOMAIN served.told : served.told[i] >= served.arrived

\* The same of the calendar specialist, whose directive is built anew at
\* every invocation.
CalendarDirectiveCurrent ==
    \A i \in DOMAIN served.calendar_told : served.calendar_told[i] >= served.arrived

\* C34: get_emails answers with the no-emails text exactly when the listing
\* is empty; otherwise with at most five entries, one for each of the first
\* five messages of the listing (all of a shorter one), in its order.
C34_FirstFive ==
    (tool_in.tool = "get_emails" /\ tool_out.st # "raised") =>
        LET ms == mailbox.listing
            out == tool_out.text
        IN /\ tool_out.st = "text" <=> ms = <<>>
           /\ tool_out.st = "text" => out = <<"No emails found for that query.">>
           /\ tool_out.st = "list" =>
                 /\ Len(out) <= 5
                 /\ Len(out) = IF Len(ms) <= 5 THEN Len(ms) ELSE 5
                 /\ \A i \in DOMAIN out :
                       /\ out[i].id = ms[i].id
                       /\ out[i].threadId = ms[i].threadId
                       /\ out[i].snippet = MessageData(ms[i].id).snippet

\* C34 witness: of six messages listed newest first, the five newest were returned.
C34_Witness ==
    /\ tool_in.tool = "get_emails"
    /\ tool_out.st = "list"
    /\ Len(mailbox.listing) = 6
    /\ Len(tool_out.text) = 5
    /\ tool_out.text[1].id = 6 /\ tool_out.text[5].id = 2

\* C34 witness: nothing listed, the text returned.
C34_WitnessEmpty ==
    /\ tool_in.tool = "get_emails"
    /\ tool_out.st = "text"
    /\ mailbox.listing = <<>>

C32_WitnessNone ==
    /\ tool_in.tool = "get_contacts"
    /\ tool_in.query = <<"x">>
    /\ Len(people) = 2
    /\ tool_out = [st |-> "text", text |-> <<"No contacts found matching that query.">>]

\* What the last call of get_calendar_events asked the provider for.
Asked == calendar.calls
Window(date) ==
    <<[api |-> "events.list", timeMin |-> [date |-> date, time |-> 0],
       timeMax |-> [date |-> date, time |-> 86399]]>>

\* The texts that are dates, with their dates, and the texts that are not.
Dated ==
    { <<<<"2", "0", "2", "5", "-", "0", "3", "-", "0", "1">>, [y |-> 2025, m |-> 3, d |-> 1]>>,
      <<<<"2", "0", "2", "5", "-", "3", "-", "1">>, [y |-> 2025, m |-> 3, d |-> 1]>>,
      <<<<"2", "0", "2", "4", "-", "0", "2", "-", "2", "9">>, [y |-> 2024, m |-> 2, d |-> 29]>> }
Tomorrows ==
    { <<[y |-> 2025, m |-> 2, d |-> 28], [y |-> 2025, m |-> 3, d |-> 1]>>,
      <<[y |-> 2024, m |-> 2, d |-> 28], [y |-> 2024, m |-> 2, d |-> 29]>>,
      <<[y |-> 2025, m |-> 12, d |-> 31], [y |-> 2026, m |-> 1, d |-> 1]>>,
      <<[y |-> 2025, m |-> 3, d |-> 1], [y |-> 2025, m |-> 3, d |-> 2]>> }

\* C31: a call of get_calendar_events that got its service asks for the
\* events from the first to the last moment of one day: the UTC date of
\* the call for None and for "today" in any letter case, the date after it
\* for "tomorrow" in any letter case, the date a text of the form
\* YYYY-MM-DD names; for any other text it asks for nothing and returns
\* the "An error occurred: ..." text; it never raises; and when the
\* provider lists no event it returns "No upcoming events found for <day>."
C31_DayResolved ==
    (tool_in.tool = "get_calendar_events" /\ service["calendar"].returned) =>
        LET day == tool_in.day
            now == calendar.now_utc
            low == Lower(day.text)
            today == day.none \/ low = <<"t", "o", "d", "a", "y">>
            tomorrow == ~day.none /\ low = <<"t", "o", "m", "o", "r", "r", "o", "w">>
            failed == tool_out.st = "text" /\ tool_out.text[1] = "An error occurred: "
        IN /\ tool_out.st # "raised"
           /\ today => Asked = Window(now)
           /\ tomorrow => \E p \in Tomorrows : p[1] = now /\ Asked = Window(p[2])
           /\ \A p \in Dated : (~day.none /\ day.text = p[1]) => Asked = Window(p[2])
           /\ (~today /\ ~tomorrow /\ \A p \in Dated : day.text # p[1]) =>
                 (Asked = <<>> /\ failed)
           /\ Len(Asked) <= 1
           /\ (Asked # <<>> /\ ~failed) =>
                 LET within == {i \in DOMAIN calendar.events :
                                   calendar.events[i].start.date = Asked[1].timeMin.date}
                 IN IF within = {}
                    THEN tool_out = [st |-> "text",
                                     text |-> <<"No upcoming events found for ">>
                                                \o (IF day.none THEN <<"None">> ELSE day.text)
                                                \o <<".">>]
                    ELSE /\ tool_out.st = "list"
                         /\ {tool_out.text[i].id : i \in DOMAIN tool_out.text} =
                               {calendar.events[i].id : i \in within}

\* C31 witness: asked for "TOMORROW" on the last of February 2025, the tool
\* listed the two events of the first of March.
C31_Witness ==
    /\ tool_in.tool = "get_calendar_events"
    /\ tool_in.day = Day(<<"T", "O", "M", "O", "R", "R", "O", "W">>)
    /\ calendar.now_utc = [y |-> 2025, m |-> 2, d |-> 28]
    /\ tool_out.st = "list"
    /\ Len(tool_out.text) = 2
    /\ tool_out.text[1].id = "e3"

\* C31 witness: the 29th of February 2025 is no date, and the tool said so.
C31_WitnessNoDate ==
    /\ tool_in.tool = "get_calendar_events"
    /\ tool_in.day = Day(<<"2", "0", "2", "5", "-", "0", "2", "-", "2", "9">>)
    /\ tool_out.st = "text" /\ tool_out.text[1] = "An error occurred: "
    /\ calendar.calls = <<>>

\* C31 witness: nothing on the day, and the text names the day as it was given.
C31_WitnessNone ==
    /\ tool_in.tool = "get_calendar_events"
    /\ tool_in.day = Day(<<"T", "o", "d", "a", "y">>)
    /\ tool_out = [st |-> "text",
                   text |-> <<"No upcoming events found for ", "T", "o", "d", "a", "y", ".">>]

====
